---- MODULE Spec2Model ----
(***************************************************************************)
(* Session engines of the ech-wk tunnel.                                   *)
(*                                                                         *)
(*   q*  wsSession          src/src/index.js     (write-queue egress)      *)
(*   t*  TcpWsSession       src/unnamed/part_000 (pooled egress)           *)
(*   w*  WebSocketSession   src/unnamed/part_000 (state-machine egress)    *)
(*   i*  handleTunnel       src/unnamed/part_002 (ingress, relay phase)    *)
(*   p*  fetch, SessionPool src/unnamed/part_000 (admission)               *)
(*   g*  ProxyServer        src/unnamed/part_002 (ingress lifecycle)       *)
(*   u*  handleUDPAssociate src/unnamed/part_002 (SOCKS5 UDP relay)        *)
(*   h*  ProxyServer        src/unnamed/part_002 (one call of a handler    *)
(*                          function on a request drawn from a bounded set)*)
(*                                                                         *)
(* JavaScript handlers run to completion between awaits: every action is   *)
(* one synchronous segment of a handler, from an event or a resumed await  *)
(* to the next await.  A payload is a number; 0 is the empty payload.      *)
(***************************************************************************)
EXTENDS Integers, Sequences, FiniteSets, TLC

\* ---------------------------------------------------------------- bounds
\* binary frames the ingress relays after CONNECTED
MaxData == 2
\* fallback endpoints after the target in connectToRemote's attempt list
NumFallbacks == 1

\* frames an arbitrary client sends to one TcpWsSession
MaxFrames == 2
\* sockets one TcpWsSession may create with connect()
MaxSockets == 2
\* _connectRemote calls of one TcpWsSession that may be in flight together
MaxConnects == 2
\* chunks the upstream sends back to one TcpWsSession
MaxChunks == 1
\* chunks the upstream sends into an established tunnel
MaxUp == 2
\* upgrade requests that reach the egress
MaxUpgrades == 3
\* globalPool.max, as configured by env.MAX_SESSIONS
MaxSessions == 1
\* client connections the listener accepts
MaxConns == 2
\* addresses are 0..MaxAddr; 0 is 0.0.0.0
MaxAddr == 3
\* ranges in the table of loadChinaIPList
MaxRanges == 2
\* datagrams a client sends to one UDP relay
MaxDgrams == 2
\* characters after "CONNECT:" in a CONNECT frame
MaxBody == 4

\* ------------------------------------------------------- program constants
WRITE_RETRY_COUNT == 2

VARIABLES
    \* ---- wsSession (src/src/index.js) and the ingress that drives it
    qClient,        \* ingress position: "start" | "await" | "relay" | "done"
    qInbox,         \* frames on the WebSocket not yet given to handleMessage
    qSent,          \* payloads the ingress wrote into the tunnel, in order
    qIsClosed,      \* isClosed
    qWsOpen,        \* clientSocket.readyState = OPEN
    qSocket,        \* remoteSocket: "null" | "opening" | "open"
    qWriter,        \* remoteWriter # null
    qReader,        \* remoteReader # null (the forwarding loop runs)
    qConn,          \* connectToRemote in flight: [pc, i, ff, ip]; i: the attempt,
                    \*   ip: the target host is an IP literal
    qQueue,         \* _writeQueue: jobs [data, owner, attempt, st], head first
    qRejected,      \* _writeQueue is a rejected promise
    qSink,          \* chunks taken by remoteWriter.write(), not yet on the wire
    qUpstream,      \* what the upstream TCP endpoint has received
    qOut,           \* text frames sent to the ingress
    qReply,         \* answer to the local client: "none" | "success" | "error"
    qBytes,         \* bytesToRemote
    qDropped,       \* history: payloads queued behind a write that failed for good
    \* ---- TcpWsSession (src/unnamed/part_000) and its client
    tInbox,         \* frames on the WebSocket not yet given to _onWsMessage
    tSentN,         \* frames the client has sent
    tPeer,          \* client end of the WebSocket: "open" | "closed"
    tListening,     \* the message/close/error listeners are registered
    tClosed,        \* closed
    tDisp,          \* _dispose: "none" | "closing" (awaiting _closeRemote) | "done"
    tWsOpen,        \* ws.readyState = OPEN
    tTimer,         \* readTimeout is armed
    tRemote,        \* remote: 0 (null) or the socket it holds
    tSock,          \* sockets made by connect(): "free" | "opening" | "open" |
                    \*   "failed" | "errored" | "closed"
    tSink,          \* per socket: chunks [p, h] taken by writer.write(), pending
    tUp,            \* per socket: what the upstream endpoint has received
    tPump,          \* per socket: _pumpRemote loops reading it
    tConn,          \* _connectRemote calls in flight: [pc, sock, i, fp]
    tOut,           \* frames sent to the client
    tChunks,        \* chunks the upstream has sent back
    poolCurrent,    \* globalPool.current
    tReleases,      \* calls of release()
    tDenied,        \* CONNECTs refused by the ALLOWED_HOSTS test
    tTimedOut,      \* the readTimeout callback disposed the session
    tErrTaken,      \* a connected session has been given an ERROR frame
    \* ---- WebSocketSession (src/unnamed/part_000) and its client
    wInbox,         \* frames on the WebSocket not yet given to onMessage
    wSentN,         \* frames the client has sent
    wPeer,          \* client end: "open" | "closed" | "notified" (close event run)
    wState,         \* state: "INIT" | "CONNECTING" | "CONNECTED" | "CLOSED"
    wClosed,        \* closed
    wRemote,        \* remoteSocket, remoteReader, remoteWriter # null
    wSock,          \* the socket of the dial: "none" | "opening" | "open" | "closed"
    wWsOpen,        \* ws.readyState = OPEN
    wConn,          \* handleConnect in flight: [pc, i, fp]
    wSink,          \* chunks [p, h] taken by remoteWriter.write(), pending
    wUp,            \* what the upstream endpoint has received
    wPump,          \* pumpRemote loops
    wOut,           \* frames sent to the client
    wChunks,        \* chunks the upstream has sent back
    wCloses,        \* runs of the body of close()
    wErr,           \* failed dial attempts: [n, cf], cf: isCFError of the last
    \* ---- an established tunnel, upstream to client
    iUpState,       \* the upstream connection: "open" | "ended" | "errored"
    iUpHist,        \* every chunk the upstream has sent
    iUpBuf,         \* chunks the egress socket holds, not yet read
    iPump,          \* _pumpRemote: "run" | "done"
    iWsOpen,        \* the egress has not closed the WebSocket
    iWire,          \* messages on the WebSocket towards the ingress
    iToEgress,      \* messages on the WebSocket towards the egress
    iReader,        \* the Client -> Server goroutine: "run" | "done"
    iLoop,          \* the Server -> Client goroutine: "run" | "done"
    iClient,        \* messages whose bytes conn.Write has put on the client socket
    iTunnel,        \* handleTunnel: "run" | "returned" (wsConn closed) | "closed" (conn closed)
    iKeep,          \* the keepalive goroutine: "run" | "done"
    iCloseSent,     \* a CLOSE frame was written to an open wsConn
    \* ---- admission at the egress
    pToken,         \* a token is configured
    pCurrent,       \* globalPool.current
    pReq,           \* upgrades so far: [offer, resp, echo] of the pooled fetch,
                    \*   [eresp, eecho] of EchServer.fetch for the same request
    pSess,          \* per upgrade: "rejected" | "live" | "closing" | "released"
    \* ---- ProxyServer (src/unnamed/part_002): Start, Stop, handleConnection
    gIsRunning,     \* ps.isRunning
    gStop,          \* Stop(): "idle" | "stopping" (holds ps.mu) | "stopped"
    gListener,      \* ps.listener: "open" | "closed"
    gAccept,        \* the accept goroutine: "run" | "done"
    gPc,            \* per connection, the position of its handleConnection
    gSock,          \* per connection: "none" | "open" | "closed"
    gActive,        \* ps.activeConns
    \* ---- one call of a handler function of the ingress
    hCall,          \* the call: its function, its inputs and what it did
    \* ---- handleUDPAssociate, handleUDPRelay, handleDNSQuery
    uTcp,           \* the TCP control connection: "open" | "closed"
    uAssoc,         \* handleUDPAssociate: "wait" | "stopping" (stopChan closed) | "done"
    uUdp,           \* udpConn: "open" | "closed"
    uRelay,         \* the handleUDPRelay goroutine: "run" | "done"
    uRecvN,         \* datagrams ReadFromUDP has returned; datagram d is the d-th
    uBuf,           \* the datagram whose bytes buf holds (0: none)
    uJob,           \* per datagram, its handleDNSQuery goroutine: [pc, q]
    uReplies,       \* replies written to the client: [d, hdr, ans]
    \* ---- the WebSocket writers of one handleTunnel call
    mu,             \* sync.Mutex: "free" or its holder "ping" | "main" | "copy"
    mPing,          \* keepalive goroutine: "wait" | "write" | "stopped"
    mMain,          \* handleTunnel: "first" | "connect" | "await" | "relay" | "returned"
    mCopy,          \* client -> server goroutine: "off" | "read" | "data" | "close" | "done"
    mLog,           \* messages WriteMessage has been given, in order
    \* ---- one ProxyServer: Start, Stop, the ECH cache, dialWebSocketWithECH
    sIsRunning,     \* ps.isRunning
    sStopChan,      \* ps.stopChan: "open" | "closed"
    sPanic,         \* close of a closed channel has panicked
    sCalls,         \* Start and Stop calls made so far
    sStarted,       \* a Start call has returned nil
    sEchLen,        \* len(ps.echList): 0 or 1 (non-empty)
    sTunnels,       \* handleTunnel calls that reached dialWebSocketWithECH
    sDial,          \* the running dialWebSocketWithECH(2): [pc, attempt, outs, plain]
    \* ---- TcpWsSession._pumpRemote with waitForBackpressure
    bPc,            \* pump: "read" | "check" | "sleep" | "send" | "done"
    bClosed,        \* this.closed
    bWsOpen,        \* ws.readyState is OPEN
    bAmount,        \* ws.bufferedAmount, in bytes
    bDelay,         \* delay of waitForBackpressure, in ms
    bObs,           \* the bufferedAmount the last test of the while condition read
    bReads,         \* chunks reader.read() has returned
    bSlept          \* delays slept in the current waitForBackpressure call

qvars == <<qClient, qInbox, qSent, qIsClosed, qWsOpen, qSocket, qWriter, qReader,
           qConn, qQueue, qRejected, qSink, qUpstream, qOut, qReply, qBytes, qDropped>>

tvars == <<tInbox, tSentN, tPeer, tListening, tClosed, tDisp, tWsOpen, tTimer,
           tRemote, tSock, tSink, tUp, tPump, tConn, tOut, tChunks, poolCurrent,
           tReleases, tDenied, tTimedOut, tErrTaken>>

wvars == <<wInbox, wSentN, wPeer, wState, wClosed, wRemote, wSock, wWsOpen, wConn,
           wSink, wUp, wPump, wOut, wChunks, wCloses, wErr>>

ivars == <<iUpState, iUpHist, iUpBuf, iPump, iWsOpen, iWire, iToEgress, iReader,
           iLoop, iClient, iTunnel, iKeep, iCloseSent>>

pvars == <<pToken, pCurrent, pReq, pSess>>

gvars == <<gIsRunning, gStop, gListener, gAccept, gPc, gSock, gActive>>

hvars == <<hCall>>

uvars == <<uTcp, uAssoc, uUdp, uRelay, uRecvN, uBuf, uJob, uReplies>>

mvars == <<mu, mPing, mMain, mCopy, mLog>>

svars == <<sIsRunning, sStopChan, sPanic, sCalls, sStarted, sEchLen, sTunnels, sDial>>

bvars == <<bPc, bClosed, bWsOpen, bAmount, bDelay, bObs, bReads, bSlept>>

vars == <<qvars, tvars, wvars, ivars, pvars, gvars, hvars, uvars, mvars, svars, bvars>>

\* an action of one session engine leaves the others alone
QOnly == UNCHANGED <<tvars, wvars, ivars, pvars, gvars, hvars, uvars, mvars, svars, bvars>>

TOnly == UNCHANGED <<qvars, wvars, ivars, pvars, gvars, hvars, uvars, mvars, svars, bvars>>

WOnly == UNCHANGED <<qvars, tvars, ivars, pvars, gvars, hvars, uvars, mvars, svars, bvars>>

IOnly == UNCHANGED <<qvars, tvars, wvars, pvars, gvars, hvars, uvars, mvars, svars, bvars>>

POnly == UNCHANGED <<qvars, tvars, wvars, ivars, gvars, hvars, uvars, mvars, svars, bvars>>

GOnly == UNCHANGED <<qvars, tvars, wvars, ivars, pvars, hvars, uvars, mvars, svars, bvars>>

HOnly == UNCHANGED <<qvars, tvars, wvars, ivars, pvars, gvars, uvars, mvars, svars, bvars>>

UOnly == UNCHANGED <<qvars, tvars, wvars, ivars, pvars, gvars, hvars, mvars, svars, bvars>>

MOnly == UNCHANGED <<qvars, tvars, wvars, ivars, pvars, gvars, hvars, uvars, svars, bvars>>

SOnly == UNCHANGED <<qvars, tvars, wvars, ivars, pvars, gvars, hvars, uvars, mvars, bvars>>

BOnly == UNCHANGED <<qvars, tvars, wvars, ivars, pvars, gvars, hvars, uvars, mvars, svars>>

\* ---------------------------------------------------------------- helpers
IsPrefix(s, t) == Len(s) <= Len(t) /\ \A i \in 1..Len(s) : s[i] = t[i]

Count(s, x) == Cardinality({i \in 1..Len(s) : s[i] = x})

Frame(k, p) == [k |-> k, p |-> p]

\* the payloads of binary frames (the first payload of CONNECT is payload 1)
DataOf(s) == SelectSeq(s, LAMBDA x : x >= 2)

\* ======================================================================
\* wsSession, src/src/index.js
\* ======================================================================
QIdle == [pc |-> "idle", i |-> 0, ff |-> 0, ip |-> FALSE]

QInit ==
    /\ qClient = "start"
    /\ qInbox = <<>>
    /\ qSent = <<>>
    /\ qIsClosed = FALSE
    /\ qWsOpen = TRUE
    /\ qSocket = "null"
    /\ qWriter = FALSE
    /\ qReader = FALSE
    /\ qConn = QIdle
    /\ qQueue = <<>>
    /\ qRejected = FALSE
    /\ qSink = <<>>
    /\ qUpstream = <<>>
    /\ qOut = <<>>
    /\ qReply = "none"
    /\ qBytes = 0
    /\ qDropped = <<>>

\* clientSocket.send(x): a closed WebSocket throws, and every caller catches
QSend(out, open, x) == IF open THEN Append(out, x) ELSE out

\* close() with cleanupRemoteResources() and safeCloseWebSocket(): the socket
\* is closed, which discards what its writable side still holds
QCloseEffect ==
    /\ qIsClosed' = TRUE
    /\ qSocket' = "null"
    /\ qWriter' = FALSE
    /\ qReader' = FALSE
    /\ qSink' = <<>>
    /\ qWsOpen' = FALSE

\* ---- the ingress (src/unnamed/part_002, handleTunnel)
\* CONNECT:<target>|<firstFrame>, the first frame on the WebSocket
QClientConnect(ff) ==
    /\ QOnly
    /\ UNCHANGED <<qReply, qBytes, qDropped>>
    /\ qClient = "start"
    /\ qWsOpen
    /\ qClient' = "await"
    /\ qInbox' = Append(qInbox, Frame("CONNECT", ff))
    /\ qSent' = IF ff = 0 THEN qSent ELSE Append(qSent, ff)
    /\ UNCHANGED <<qIsClosed, qWsOpen, qSocket, qWriter, qReader, qConn, qQueue,
                   qRejected, qSink, qUpstream, qOut>>

\* an ingress that takes every first response for CONNECTED
QClientResponseAny ==
    /\ QOnly
    /\ qClient = "await"
    /\ Len(qOut) >= 1 \/ ~qWsOpen
    /\ qClient' = "relay"
    /\ qReply' = "success"
    /\ UNCHANGED <<qBytes, qDropped>>
    /\ UNCHANGED <<qInbox, qSent, qIsClosed, qWsOpen, qSocket, qWriter, qReader,
                   qConn, qQueue, qRejected, qSink, qUpstream, qOut>>

\* the one response frame: CONNECTED is answered with sendSuccessResponse and
\* starts the relay; ERROR:..., anything else, or a failed ReadMessage is
\* answered with sendErrorResponse and ends handleTunnel
QClientResponse ==
    /\ QOnly
    /\ qClient = "await"
    /\ Len(qOut) >= 1 \/ ~qWsOpen
    /\ IF Len(qOut) >= 1 /\ qOut[1] = "CONNECTED"
       THEN qClient' = "relay" /\ qReply' = "success"
       ELSE qClient' = "done" /\ qReply' = "error"
    /\ UNCHANGED <<qBytes, qDropped>>
    /\ UNCHANGED <<qInbox, qSent, qIsClosed, qWsOpen, qSocket, qWriter, qReader,
                   qConn, qQueue, qRejected, qSink, qUpstream, qOut>>

\* client -> server loop: one read of the local socket becomes one binary frame
QClientData ==
    /\ QOnly
    /\ UNCHANGED <<qReply, qBytes, qDropped>>
    /\ qClient = "relay"
    /\ qWsOpen
    /\ Len(qSent) < MaxData + 1
    /\ LET p == Len(qSent) + 2 IN
        /\ qInbox' = Append(qInbox, Frame("BIN", p))
        /\ qSent' = Append(qSent, p)
    /\ UNCHANGED <<qClient, qIsClosed, qWsOpen, qSocket, qWriter, qReader, qConn,
                   qQueue, qRejected, qSink, qUpstream, qOut>>

\* the local read fails: CLOSE is sent and the tunnel ends
QClientClose ==
    /\ QOnly
    /\ UNCHANGED <<qReply, qBytes, qDropped>>
    /\ qClient = "relay"
    /\ qWsOpen
    /\ qClient' = "done"
    /\ qInbox' = Append(qInbox, Frame("CLOSE", 0))
    /\ UNCHANGED <<qSent, qIsClosed, qWsOpen, qSocket, qWriter, qReader, qConn,
                   qQueue, qRejected, qSink, qUpstream, qOut>>

\* a copy loop ends without a CLOSE frame (the WebSocket read or the local
\* write failed): the deferred wsConn.Close() closes the WebSocket
QClientDrop ==
    /\ QOnly
    /\ qClient \in {"await", "relay"}
    /\ qClient' = "done"
    /\ qReply' = IF qClient = "await" THEN "error" ELSE qReply
    /\ UNCHANGED <<qBytes, qDropped>>
    /\ UNCHANGED <<qInbox, qSent, qIsClosed, qWsOpen, qSocket, qWriter, qReader, qConn,
                   qQueue, qRejected, qSink, qUpstream, qOut>>

\* ---- _writeRemote: this._writeQueue = this._writeQueue.then(job)
QJob(data, owner) == [data |-> data, owner |-> owner, attempt |-> 0, st |-> "queued"]

\* the job is chained; on a rejected queue its callback never runs and the
\* caller's await throws into _handleError (session already closed by then)
QEnqueue(q, data, owner) == IF qRejected THEN q ELSE Append(q, QJob(data, owner))

\* remoteWriter.write(data) of one attempt; with remoteWriter null it throws
QWriteChunk(sink, data) == Append(sink, data)

\* ---- handleMessage
QHandleConnect(ip) ==
    /\ QOnly
    /\ UNCHANGED <<qReply, qBytes, qDropped>>
    /\ qInbox # <<>>
    /\ qInbox[1].k = "CONNECT"
    /\ qInbox' = Tail(qInbox)
    /\ IF qIsClosed
       THEN UNCHANGED <<qConn, qSocket>>
       ELSE /\ qConn' = [pc |-> "dial", i |-> 1, ff |-> qInbox[1].p, ip |-> ip]
            /\ qSocket' = "opening"
    /\ UNCHANGED <<qClient, qSent, qIsClosed, qWsOpen, qWriter, qReader, qQueue,
                   qRejected, qSink, qUpstream, qOut>>

QHandleData ==
    /\ QOnly
    /\ UNCHANGED <<qReply, qBytes, qDropped>>
    /\ qInbox # <<>>
    /\ qInbox[1].k = "BIN"
    /\ qInbox' = Tail(qInbox)
    /\ IF ~qIsClosed /\ qWriter
       THEN qQueue' = QEnqueue(qQueue, qInbox[1].p, "data")
       ELSE UNCHANGED qQueue
    /\ UNCHANGED <<qClient, qSent, qIsClosed, qWsOpen, qSocket, qWriter, qReader,
                   qConn, qRejected, qSink, qUpstream, qOut>>

QHandleClose ==
    /\ QOnly
    /\ UNCHANGED <<qReply, qBytes, qDropped>>
    /\ qInbox # <<>>
    /\ qInbox[1].k = "CLOSE"
    /\ qInbox' = Tail(qInbox)
    /\ IF qIsClosed
       THEN UNCHANGED <<qIsClosed, qSocket, qWriter, qReader, qSink, qWsOpen>>
       ELSE QCloseEffect
    /\ UNCHANGED <<qClient, qSent, qConn, qQueue, qRejected, qUpstream, qOut>>

\* the 'close' event of the client WebSocket
QOnWsClose ==
    /\ QOnly
    /\ UNCHANGED <<qReply, qBytes, qDropped>>
    /\ qClient = "done"
    /\ qInbox = <<>>
    /\ ~qIsClosed
    /\ QCloseEffect
    /\ UNCHANGED <<qClient, qInbox, qSent, qConn, qQueue, qRejected, qUpstream, qOut>>

\* ---- connectToRemote
\* await remoteSocket.opened resolves
QDialOpened ==
    /\ QOnly
    /\ UNCHANGED <<qReply, qBytes, qDropped>>
    /\ qConn.pc = "dial"
    /\ IF qSocket = "null"
       THEN \* close() ran meanwhile: remoteSocket.writable throws, the catch
            \* blocks clean up and _handleError sends ERROR and closes
            /\ qConn' = QIdle
            /\ qOut' = QSend(qOut, qWsOpen, "ERROR")
            /\ IF qIsClosed
               THEN UNCHANGED <<qIsClosed, qSocket, qWriter, qReader, qSink, qWsOpen>>
               ELSE QCloseEffect
            /\ UNCHANGED qQueue
       ELSE /\ qSocket' = "open"
            /\ qWriter' = TRUE
            /\ IF qConn.ff # 0
               THEN /\ qQueue' = QEnqueue(qQueue, qConn.ff, "conn")
                    /\ qConn' = [qConn EXCEPT !.pc = "fwrite"]
               ELSE /\ qConn' = [qConn EXCEPT !.pc = "written"]
                    /\ UNCHANGED qQueue
            /\ UNCHANGED <<qIsClosed, qReader, qSink, qWsOpen, qOut>>
    /\ UNCHANGED <<qClient, qInbox, qSent, qRejected, qUpstream>>

\* await remoteSocket.opened rejects; cf says whether isCfError(err)
QDialFailed(cf) ==
    /\ QOnly
    /\ UNCHANGED <<qReply, qBytes, qDropped>>
    /\ qConn.pc = "dial"
    /\ qSocket # "null"
    /\ qWriter' = FALSE
    /\ qReader' = FALSE
    /\ qSink' = <<>>
    /\ IF cf /\ qConn.i < 1 + NumFallbacks
       THEN /\ qConn' = [qConn EXCEPT !.i = @ + 1]
            /\ qSocket' = "opening"
            /\ UNCHANGED <<qIsClosed, qWsOpen, qOut>>
       ELSE /\ qConn' = QIdle
            /\ qOut' = QSend(qOut, qWsOpen, "ERROR")
            /\ qIsClosed' = TRUE
            /\ qSocket' = "null"
            /\ qWsOpen' = FALSE
    /\ UNCHANGED <<qClient, qInbox, qSent, qQueue, qRejected, qUpstream>>

\* after the first frame: STATUS_CONNECTED, then startNativeLoop()
QConnected ==
    /\ QOnly
    /\ UNCHANGED <<qReply, qBytes, qDropped>>
    /\ qConn.pc = "written"
    /\ qConn' = QIdle
    /\ qOut' = QSend(qOut, qWsOpen, "CONNECTED")
    /\ IF qSocket = "null"
       THEN \* getReader() throws on the null socket: close()
            IF qIsClosed
            THEN UNCHANGED <<qIsClosed, qSocket, qWriter, qReader, qSink, qWsOpen>>
            ELSE QCloseEffect
       ELSE /\ qReader' = TRUE
            /\ UNCHANGED <<qIsClosed, qSocket, qWriter, qSink, qWsOpen>>
    /\ UNCHANGED <<qClient, qInbox, qSent, qQueue, qRejected, qUpstream>>

\* ---- the queued job of _writeRemote
\* the .then callback starts: attempt 1 calls remoteWriter.write(data)
QJobStart ==
    /\ QOnly
    /\ UNCHANGED <<qReply, qBytes, qDropped>>
    /\ qQueue # <<>>
    /\ qQueue[1].st = "queued"
    /\ IF qWriter
       THEN /\ qQueue' = [qQueue EXCEPT ![1].attempt = 1, ![1].st = "writing"]
            /\ qSink' = QWriteChunk(qSink, qQueue[1].data)
       ELSE \* remoteWriter is null: the attempt throws at once
            /\ qQueue' = [qQueue EXCEPT ![1].attempt = 1, ![1].st = "failed"]
            /\ UNCHANGED qSink
    /\ UNCHANGED <<qClient, qInbox, qSent, qIsClosed, qWsOpen, qSocket, qWriter,
                   qReader, qConn, qRejected, qUpstream, qOut>>

\* the payload numbered p is 2^(p-1) bytes long, so that a sum of lengths
\* tells which payloads it counts
ByteLength(p) == 2 ^ (p - 1)

\* a job that adds the bytes of every attempt it made
QSinkDeliverCountsAttempts ==
    /\ QOnly
    /\ UNCHANGED <<qReply, qDropped>>
    /\ qSink # <<>>
    /\ qSink' = Tail(qSink)
    /\ qUpstream' = Append(qUpstream, qSink[1])
    /\ IF Len(qSink) = 1 /\ qQueue # <<>> /\ qQueue[1].st = "writing"
       THEN /\ qQueue' = Tail(qQueue)
            /\ qBytes' = qBytes + qQueue[1].attempt * ByteLength(qQueue[1].data)
            /\ qConn' = IF qQueue[1].owner = "conn" /\ qConn.pc = "fwrite"
                        THEN [qConn EXCEPT !.pc = "written"] ELSE qConn
       ELSE UNCHANGED <<qQueue, qConn, qBytes>>
    /\ UNCHANGED <<qClient, qInbox, qSent, qIsClosed, qWsOpen, qSocket, qWriter,
                   qReader, qRejected, qOut>>

\* the writable side puts its oldest chunk on the wire; the write promise of
\* the running attempt resolves when its own chunk (the newest) went out, and
\* the job adds the payload's length to bytesToRemote
QSinkDeliver ==
    /\ QOnly
    /\ UNCHANGED <<qReply, qDropped>>
    /\ qSink # <<>>
    /\ qSink' = Tail(qSink)
    /\ qUpstream' = Append(qUpstream, qSink[1])
    /\ IF Len(qSink) = 1 /\ qQueue # <<>> /\ qQueue[1].st = "writing"
       THEN /\ qQueue' = Tail(qQueue)
            /\ qBytes' = qBytes + ByteLength(qQueue[1].data)
            /\ qConn' = IF qQueue[1].owner = "conn" /\ qConn.pc = "fwrite"
                        THEN [qConn EXCEPT !.pc = "written"] ELSE qConn
       ELSE UNCHANGED <<qQueue, qConn, qBytes>>
    /\ UNCHANGED <<qClient, qInbox, qSent, qIsClosed, qWsOpen, qSocket, qWriter,
                   qReader, qRejected, qOut>>

\* Promise.race: the timer wins, the chunk stays with the writable side
QWriteTimeout ==
    /\ QOnly
    /\ UNCHANGED <<qReply, qBytes, qDropped>>
    /\ qQueue # <<>>
    /\ qQueue[1].st = "writing"
    /\ qQueue' = [qQueue EXCEPT ![1].st = "failed"]
    /\ UNCHANGED <<qClient, qInbox, qSent, qIsClosed, qWsOpen, qSocket, qWriter,
                   qReader, qConn, qRejected, qSink, qUpstream, qOut>>

\* a catch block that allows one retry more than WRITE_RETRY_COUNT
QWriteRetryOneMore ==
    /\ QOnly
    /\ UNCHANGED <<qReply, qBytes, qDropped>>
    /\ qQueue # <<>>
    /\ qQueue[1].st = "failed"
    /\ qQueue[1].attempt - 1 < WRITE_RETRY_COUNT + 1
    /\ IF qWriter
       THEN /\ qQueue' = [qQueue EXCEPT ![1].attempt = @ + 1, ![1].st = "writing"]
            /\ qSink' = QWriteChunk(qSink, qQueue[1].data)
       ELSE /\ qQueue' = [qQueue EXCEPT ![1].attempt = @ + 1]
            /\ UNCHANGED qSink
    /\ UNCHANGED <<qClient, qInbox, qSent, qIsClosed, qWsOpen, qSocket, qWriter,
                   qReader, qConn, qRejected, qUpstream, qOut>>

\* catch block, retries left: wait WRITE_RETRY_DELAY_MS, then write again
QWriteRetry ==
    /\ QOnly
    /\ UNCHANGED <<qReply, qBytes, qDropped>>
    /\ qQueue # <<>>
    /\ qQueue[1].st = "failed"
    /\ qQueue[1].attempt - 1 < WRITE_RETRY_COUNT
    /\ IF qWriter
       THEN /\ qQueue' = [qQueue EXCEPT ![1].attempt = @ + 1, ![1].st = "writing"]
            /\ qSink' = QWriteChunk(qSink, qQueue[1].data)
       ELSE /\ qQueue' = [qQueue EXCEPT ![1].attempt = @ + 1]
            /\ UNCHANGED qSink
    /\ UNCHANGED <<qClient, qInbox, qSent, qIsClosed, qWsOpen, qSocket, qWriter,
                   qReader, qConn, qRejected, qUpstream, qOut>>

\* catch block, no retry left: _handleError (ERROR frame, close) and rethrow,
\* which rejects the queue for every job chained behind
\* a give-up that is swallowed: the failed job leaves the queue, the jobs
\* behind it run and the session stays open
QWriteGiveUpSwallowed ==
    /\ QOnly
    /\ UNCHANGED <<qReply, qBytes>>
    /\ qQueue # <<>>
    /\ qQueue[1].st = "failed"
    /\ qQueue[1].attempt - 1 >= WRITE_RETRY_COUNT
    /\ qDropped' = qDropped \o [i \in 1..Len(qQueue) - 1 |-> qQueue[i + 1].data]
    /\ qQueue' = Tail(qQueue)
    /\ qRejected' = TRUE
    /\ qConn' = IF qConn.pc = "fwrite" THEN QIdle ELSE qConn
    /\ UNCHANGED <<qClient, qInbox, qSent, qIsClosed, qWsOpen, qSocket, qWriter,
                   qReader, qSink, qUpstream, qOut>>

QWriteGiveUp ==
    /\ QOnly
    /\ UNCHANGED <<qReply, qBytes>>
    /\ qQueue # <<>>
    /\ qQueue[1].st = "failed"
    /\ qQueue[1].attempt - 1 >= WRITE_RETRY_COUNT
    /\ qDropped' = qDropped \o [i \in 1..Len(qQueue) - 1 |-> qQueue[i + 1].data]
    /\ qQueue' = <<>>
    /\ qRejected' = TRUE
    /\ qOut' = QSend(qOut, qWsOpen, "ERROR")
    /\ qConn' = IF qConn.pc = "fwrite" THEN QIdle ELSE qConn
    /\ IF qIsClosed
       THEN UNCHANGED <<qIsClosed, qSocket, qWriter, qReader, qSink, qWsOpen>>
       ELSE QCloseEffect
    /\ UNCHANGED <<qClient, qInbox, qSent, qUpstream>>

\* ---- _runLoop: reader.read() reports the end of the upstream
QLoopDone ==
    /\ QOnly
    /\ UNCHANGED <<qReply, qBytes, qDropped>>
    /\ qReader
    /\ ~qIsClosed
    /\ QCloseEffect
    /\ UNCHANGED <<qClient, qInbox, qSent, qConn, qQueue, qRejected, qUpstream, qOut>>

QNext ==
    \/ \E ff \in 0..1 : QClientConnect(ff)
    \/ QClientResponse
    \/ QClientData
    \/ QClientClose
    \/ QClientDrop
    \/ \E ip \in BOOLEAN : QHandleConnect(ip)
    \/ QHandleData
    \/ QHandleClose
    \/ QOnWsClose
    \/ QDialOpened
    \/ \E cf \in BOOLEAN : QDialFailed(cf)
    \/ QConnected
    \/ QJobStart
    \/ QSinkDeliver
    \/ QWriteTimeout
    \/ QWriteRetry
    \/ QWriteGiveUp
    \/ QLoopDone


\* ======================================================================
\* TcpWsSession, src/unnamed/part_000
\* ======================================================================
Socks == 1..MaxSockets

Conns == 1..MaxConnects

Max(a, b) == IF a >= b THEN a ELSE b

\* close() of a socket: a broken one stays broken
TClosedSock(socks, k) ==
    IF k = 0 \/ socks[k] = "errored" THEN socks ELSE [socks EXCEPT ![k] = "closed"]

TIdle == [pc |-> "idle", sock |-> 0, i |-> 0, fp |-> 0]

Chunk(p, h) == [p |-> p, h |-> h]

\* fetch has acquired the pool slot, built the session and called start()
TInit ==
    /\ tInbox = <<>>
    /\ tSentN = 0
    /\ tPeer = "open"
    /\ tListening = TRUE
    /\ tClosed = FALSE
    /\ tDisp = "none"
    /\ tWsOpen = TRUE
    /\ tTimer = FALSE
    /\ tRemote = 0
    /\ tSock = [k \in Socks |-> "free"]
    /\ tSink = [k \in Socks |-> <<>>]
    /\ tUp = [k \in Socks |-> <<>>]
    /\ tPump = [k \in Socks |-> 0]
    /\ tConn = [h \in Conns |-> TIdle]
    /\ tOut = <<>>
    /\ tChunks = 0
    /\ poolCurrent = 1
    /\ tReleases = 0
    /\ tDenied = 0
    /\ tTimedOut = FALSE
    /\ tErrTaken = FALSE

\* ws.send(x) inside try/catch: a WebSocket that is not OPEN throws
TSend(x) == IF tWsOpen THEN Append(tOut, x) ELSE tOut

\* the next socket connect() makes, 0 when the bound is used up
TFreeSock == IF \E k \in Socks : tSock[k] = "free"
             THEN CHOOSE k \in Socks : tSock[k] = "free" /\ \A j \in Socks : j < k => tSock[j] # "free"
             ELSE 0

TFreeConn == IF \E h \in Conns : tConn[h].pc = "idle"
             THEN CHOOSE h \in Conns : tConn[h].pc = "idle" /\ \A j \in Conns : j < h => tConn[j].pc # "idle"
             ELSE 0

\* a step that does not call _dispose(): rem, socks and timer are this.remote,
\* the sockets and the watchdog as the step leaves them
TKeep(rem, socks, timer) ==
    /\ tRemote' = rem
    /\ tSock' = socks
    /\ tTimer' = timer
    /\ UNCHANGED <<tClosed, tListening, tDisp, tWsOpen, poolCurrent, tReleases>>

\* _dispose() up to its await of _closeRemote(); with remote null the awaits
\* are empty and the rest (safeCloseWebSocket, release) follows at once
TDispose(rem, socks, timer) ==
    /\ IF tClosed
       THEN /\ tRemote' = rem
            /\ tSock' = socks
            /\ tTimer' = timer
            /\ UNCHANGED <<tClosed, tListening, tDisp, tWsOpen, poolCurrent, tReleases>>
       ELSE /\ tClosed' = TRUE
            /\ tListening' = FALSE
            /\ tTimer' = FALSE
            /\ tRemote' = rem
            /\ tSock' = socks
            /\ IF rem = 0
               THEN /\ tDisp' = "done"
                    /\ tWsOpen' = FALSE
                    /\ poolCurrent' = Max(poolCurrent - 1, 0)
                    /\ tReleases' = tReleases + 1
               ELSE /\ tDisp' = "closing"
                    /\ UNCHANGED <<tWsOpen, poolCurrent, tReleases>>

\* _dispose() after _closeRemote(): writer.close() has flushed (or failed),
\* the reader is cancelled, the socket closed, then the WebSocket and the slot
TDisposeFinish ==
    /\ TOnly
    /\ UNCHANGED <<tDenied, tTimedOut, tErrTaken>>
    /\ tDisp = "closing"
    /\ tRemote # 0 => (tSink[tRemote] = <<>> \/ tSock[tRemote] = "errored")
    /\ tDisp' = "done"
    /\ tSock' = TClosedSock(tSock, tRemote)
    /\ tRemote' = 0
    /\ tWsOpen' = FALSE
    /\ poolCurrent' = Max(poolCurrent - 1, 0)
    /\ tReleases' = tReleases + 1
    /\ UNCHANGED <<tInbox, tSentN, tPeer, tListening, tClosed, tTimer, tSink, tUp,
                   tPump, tConn, tOut, tChunks>>

\* ---- the client: any frame at any time
TClientSend(k, fp) ==
    /\ TOnly
    /\ UNCHANGED <<tDenied, tTimedOut, tErrTaken>>
    /\ tPeer = "open"
    /\ tSentN < MaxFrames
    /\ tSentN' = tSentN + 1
    /\ tInbox' = Append(tInbox,
                   Frame(k, IF k = "DATA" \/ (k = "CONNECT" /\ fp) THEN tSentN + 1 ELSE 0))
    /\ UNCHANGED <<tPeer, tListening, tClosed, tDisp, tWsOpen, tTimer, tRemote, tSock,
                   tSink, tUp, tPump, tConn, tOut, tChunks, poolCurrent, tReleases>>

TClientCloseWs ==
    /\ TOnly
    /\ UNCHANGED <<tDenied, tTimedOut, tErrTaken>>
    /\ tPeer = "open"
    /\ tPeer' = "closed"
    /\ UNCHANGED <<tInbox, tSentN, tListening, tClosed, tDisp, tWsOpen, tTimer, tRemote,
                   tSock, tSink, tUp, tPump, tConn, tOut, tChunks, poolCurrent,
                   tReleases>>

\* ---- _onWsMessage
\* a frame for a disposed session: the listener is gone (and closed is set)
TDropFrame ==
    /\ TOnly
    /\ UNCHANGED <<tDenied, tTimedOut, tErrTaken>>
    /\ tInbox # <<>>
    /\ ~tListening \/ tClosed
    /\ tInbox' = Tail(tInbox)
    /\ UNCHANGED <<tSentN, tPeer, tListening, tClosed, tDisp, tWsOpen, tTimer, tRemote,
                   tSock, tSink, tUp, tPump, tConn, tOut, tChunks, poolCurrent,
                   tReleases>>

TTakes(k) == tInbox # <<>> /\ tInbox[1].k = k /\ tListening /\ ~tClosed

THandlePing ==
    /\ TOnly
    /\ UNCHANGED <<tDenied, tTimedOut, tErrTaken>>
    /\ TTakes("PING")
    /\ tInbox' = Tail(tInbox)
    /\ tOut' = TSend("PONG")
    /\ UNCHANGED <<tSentN, tPeer, tListening, tClosed, tDisp, tWsOpen, tTimer, tRemote,
                   tSock, tSink, tUp, tPump, tConn, tChunks, poolCurrent, tReleases>>

\* an ERROR frame that disposes the session as CLOSE does
THandleErrorCloses ==
    /\ TOnly
    /\ UNCHANGED <<tDenied, tTimedOut>>
    /\ TTakes("ERROR")
    /\ tErrTaken' = (tErrTaken \/ tRemote # 0)
    /\ tInbox' = Tail(tInbox)
    /\ TDispose(tRemote, tSock, tTimer)
    /\ UNCHANGED <<tSentN, tPeer, tSink, tUp, tPump, tConn, tOut, tChunks>>

\* ERROR (as PONG and RAW): logged, nothing else
THandleError ==
    /\ TOnly
    /\ UNCHANGED <<tDenied, tTimedOut>>
    /\ tErrTaken' = (tErrTaken \/ tRemote # 0)
    /\ TTakes("ERROR")
    /\ tInbox' = Tail(tInbox)
    /\ UNCHANGED <<tSentN, tPeer, tListening, tClosed, tDisp, tWsOpen, tTimer, tRemote,
                   tSock, tSink, tUp, tPump, tConn, tOut, tChunks, poolCurrent,
                   tReleases>>

THandleClose ==
    /\ TOnly
    /\ UNCHANGED <<tDenied, tTimedOut, tErrTaken>>
    /\ TTakes("CLOSE")
    /\ tInbox' = Tail(tInbox)
    /\ TDispose(tRemote, tSock, tTimer)
    /\ UNCHANGED <<tSentN, tPeer, tSink, tUp, tPump, tConn, tOut, tChunks>>

\* CONNECT: _connectRemote up to its first await (the dial of attempt 1)
THandleConnect ==
    /\ TOnly
    /\ UNCHANGED <<tDenied, tTimedOut, tErrTaken>>
    /\ TTakes("CONNECT")
    /\ TFreeSock # 0
    /\ TFreeConn # 0
    /\ tInbox' = Tail(tInbox)
    /\ tConn' = [tConn EXCEPT ![TFreeConn] =
                   [pc |-> "dial", sock |-> TFreeSock, i |-> 1, fp |-> tInbox[1].p]]
    /\ TKeep(tRemote, [tSock EXCEPT ![TFreeSock] = "opening"], tTimer)
    /\ UNCHANGED <<tSentN, tPeer, tSink, tUp, tPump, tOut, tChunks>>

\* a _connectRemote without the ALLOWED_HOSTS test: the refused target is
\* dialled
THandleConnectUnchecked ==
    /\ TOnly
    /\ UNCHANGED <<tTimedOut, tErrTaken>>
    /\ TTakes("CONNECT")
    /\ TFreeSock # 0
    /\ TFreeConn # 0
    /\ tDenied' = tDenied + 1
    /\ tInbox' = Tail(tInbox)
    /\ tConn' = [tConn EXCEPT ![TFreeConn] =
                   [pc |-> "dial", sock |-> TFreeSock, i |-> 1, fp |-> tInbox[1].p]]
    /\ TKeep(tRemote, [tSock EXCEPT ![TFreeSock] = "opening"], tTimer)
    /\ UNCHANGED <<tSentN, tPeer, tSink, tUp, tPump, tOut, tChunks>>

\* CONNECT to a host outside a non-empty ALLOWED_HOSTS: _connectRemote throws
\* before its loop, _onWsMessage's catch sends ERROR and disposes
THandleConnectDenied ==
    /\ TOnly
    /\ UNCHANGED <<tTimedOut, tErrTaken>>
    /\ TTakes("CONNECT")
    /\ tDenied' = tDenied + 1
    /\ tInbox' = Tail(tInbox)
    /\ tOut' = TSend("ERROR")
    /\ TDispose(tRemote, tSock, tTimer)
    /\ UNCHANGED <<tSentN, tPeer, tSink, tUp, tPump, tConn, tChunks>>

\* DATA: written when remote.writer exists, else ignored
THandleData ==
    /\ TOnly
    /\ UNCHANGED <<tDenied, tTimedOut, tErrTaken>>
    /\ TTakes("DATA")
    /\ tInbox' = Tail(tInbox)
    /\ tSink' = IF tRemote # 0
                THEN [tSink EXCEPT ![tRemote] = Append(@, Chunk(tInbox[1].p, 0))]
                ELSE tSink
    /\ UNCHANGED <<tSentN, tPeer, tListening, tClosed, tDisp, tWsOpen, tTimer, tRemote,
                   tSock, tUp, tPump, tConn, tOut, tChunks, poolCurrent, tReleases>>

\* _onWsClose / _onWsError
TOnWsClose ==
    /\ TOnly
    /\ UNCHANGED <<tDenied, tTimedOut, tErrTaken>>
    /\ tListening
    /\ tPeer = "closed"
    /\ tInbox = <<>>
    /\ TDispose(tRemote, tSock, tTimer)
    /\ UNCHANGED <<tInbox, tSentN, tPeer, tSink, tUp, tPump, tConn, tOut, tChunks>>

\* the readTimeout callback
TReadTimeout ==
    /\ TOnly
    /\ UNCHANGED <<tDenied, tErrTaken>>
    /\ tTimer
    /\ tTimedOut' = (tTimedOut \/ ~tClosed)
    /\ TDispose(tRemote, tSock, FALSE)
    /\ UNCHANGED <<tInbox, tSentN, tPeer, tSink, tUp, tPump, tConn, tOut, tChunks>>

\* ---- _connectRemote after the first payload: CONNECTED, the watchdog, and
\* _pumpRemote up to its first read (with closed set it ends in _dispose())
TConnected(h, rem, socks) ==
    /\ tConn' = [tConn EXCEPT ![h] = TIdle]
    /\ tOut' = TSend("CONNECTED")
    /\ IF rem # 0 /\ tClosed
       THEN /\ TDispose(rem, socks, TRUE)
            /\ UNCHANGED tPump
       ELSE /\ TKeep(rem, socks, TRUE)
            /\ tPump' = IF rem = 0 THEN tPump ELSE [tPump EXCEPT ![rem] = @ + 1]

\* socket.opened resolves: remote is set, the first payload written
TDialOpened(h) ==
    /\ TOnly
    /\ UNCHANGED <<tDenied, tTimedOut, tErrTaken>>
    /\ tConn[h].pc = "dial"
    /\ tSock[tConn[h].sock] = "opening"
    /\ LET k == tConn[h].sock
           socks == [tSock EXCEPT ![k] = "open"] IN
        IF tConn[h].fp # 0
        THEN /\ tSink' = [tSink EXCEPT ![k] = Append(@, Chunk(tConn[h].fp, h))]
             /\ tConn' = [tConn EXCEPT ![h].pc = "write"]
             /\ TKeep(k, socks, tTimer)
             /\ UNCHANGED <<tOut, tPump>>
        ELSE /\ TConnected(h, k, socks)
             /\ UNCHANGED tSink
    /\ UNCHANGED <<tInbox, tSentN, tPeer, tUp, tChunks>>

\* the catch block of an attempt: _closeRemote() (awaited: its writer.close()
\* flushes first, or fails at once on a broken socket), then the next attempt
\* or the throw into _onWsMessage's catch (sendError, _dispose)
TAttemptFailed(h, cf, socks, sinks) ==
    /\ tRemote # 0 => (sinks[tRemote] = <<>> \/ socks[tRemote] = "errored")
    /\ cf /\ tConn[h].i < 1 + NumFallbacks => TFreeSock # 0
    /\ tSink' = sinks
    /\ LET closed == TClosedSock(socks, tRemote) IN
        IF cf /\ tConn[h].i < 1 + NumFallbacks /\ TFreeSock # 0
        THEN /\ tConn' = [tConn EXCEPT ![h].pc = "dial", ![h].sock = TFreeSock, ![h].i = @ + 1]
             /\ TKeep(0, [closed EXCEPT ![TFreeSock] = "opening"], tTimer)
             /\ UNCHANGED tOut
        ELSE /\ tConn' = [tConn EXCEPT ![h] = TIdle]
             /\ tOut' = TSend("ERROR")
             /\ TDispose(0, closed, tTimer)

\* socket.opened rejects or the connect timer wins; cf: isCFError(e)
TDialFailed(h, cf) ==
    /\ TOnly
    /\ UNCHANGED <<tDenied, tTimedOut, tErrTaken>>
    /\ tConn[h].pc = "dial"
    /\ tSock[tConn[h].sock] = "opening"
    /\ TAttemptFailed(h, cf, [tSock EXCEPT ![tConn[h].sock] = "failed"], tSink)
    /\ UNCHANGED <<tInbox, tSentN, tPeer, tUp, tPump, tChunks>>

\* ---- the upstream socket
\* the oldest pending chunk goes out and its write promise resolves
TSinkDeliver(k) ==
    /\ TOnly
    /\ UNCHANGED <<tDenied, tTimedOut, tErrTaken>>
    /\ tSock[k] = "open"
    /\ tSink[k] # <<>>
    /\ tSink' = [tSink EXCEPT ![k] = Tail(@)]
    /\ tUp' = [tUp EXCEPT ![k] = Append(@, tSink[k][1].p)]
    /\ IF tSink[k][1].h = 0
       THEN \* DATA: _resetReadTimeout()
            /\ TKeep(tRemote, tSock, TRUE)
            /\ UNCHANGED <<tConn, tOut, tPump>>
       ELSE TConnected(tSink[k][1].h, tRemote, tSock)
    /\ UNCHANGED <<tInbox, tSentN, tPeer, tChunks>>

\* an upstream connection breaks under a pending write or read (one failure
\* of an established connection per session)
TSockError(k) ==
    /\ TOnly
    /\ UNCHANGED <<tDenied, tTimedOut, tErrTaken>>
    /\ tSock[k] = "open"
    /\ tSink[k] # <<>> \/ tPump[k] > 0
    /\ \A j \in Socks : tSock[j] # "errored"
    /\ TKeep(tRemote, [tSock EXCEPT ![k] = "errored"], tTimer)
    /\ UNCHANGED <<tInbox, tSentN, tPeer, tSink, tUp, tPump, tConn, tOut, tChunks>>

\* a pending write on a broken socket rejects: DATA goes to _onWsMessage's
\* catch (sendError, _dispose), the first payload to the attempt's catch
TWriteFailed(k, cf) ==
    /\ TOnly
    /\ UNCHANGED <<tDenied, tTimedOut, tErrTaken>>
    /\ tSock[k] = "errored"
    /\ tSink[k] # <<>>
    /\ IF tSink[k][1].h = 0
       THEN /\ ~cf
            /\ tSink' = [tSink EXCEPT ![k] = Tail(@)]
            /\ tOut' = TSend("ERROR")
            /\ TDispose(tRemote, tSock, tTimer)
            /\ UNCHANGED tConn
       ELSE TAttemptFailed(tSink[k][1].h, cf, tSock, [tSink EXCEPT ![k] = Tail(@)])
    /\ UNCHANGED <<tInbox, tSentN, tPeer, tUp, tPump, tChunks>>

\* ---- _pumpRemote
\* reader.read() yields a chunk: sent as a binary frame unless the WebSocket
\* is not OPEN; the loop goes on while closed is unset
TPumpChunk(k) ==
    /\ TOnly
    /\ UNCHANGED <<tDenied, tTimedOut, tErrTaken>>
    /\ tPump[k] > 0
    /\ tSock[k] = "open"
    /\ tChunks < MaxChunks
    /\ tChunks' = tChunks + 1
    /\ IF tWsOpen /\ ~tClosed
       THEN /\ tOut' = Append(tOut, "BIN")
            /\ TKeep(tRemote, tSock, TRUE)
            /\ UNCHANGED tPump
       ELSE /\ tOut' = TSend("BIN")
            /\ tPump' = [tPump EXCEPT ![k] = @ - 1]
            /\ TDispose(tRemote, tSock, IF tWsOpen THEN TRUE ELSE tTimer)
    /\ UNCHANGED <<tInbox, tSentN, tPeer, tSink, tUp, tConn>>

\* reader.read() ends the loop: done (upstream EOF, reader cancelled, socket
\* closed) or an error (sendError); finally _dispose()
TPumpEnd(k) ==
    /\ TOnly
    /\ UNCHANGED <<tDenied, tTimedOut, tErrTaken>>
    /\ tPump[k] > 0
    /\ tSock[k] \in {"open", "closed", "errored"}
    /\ tPump' = [tPump EXCEPT ![k] = @ - 1]
    /\ tOut' = IF tSock[k] = "errored" THEN TSend("ERROR") ELSE tOut
    /\ TDispose(tRemote, tSock, tTimer)
    /\ UNCHANGED <<tInbox, tSentN, tPeer, tSink, tUp, tConn, tChunks>>

TKinds == {"CONNECT", "DATA", "CLOSE", "PING", "ERROR"}

TNext ==
    \/ \E k \in TKinds, fp \in BOOLEAN : TClientSend(k, fp)
    \/ TClientCloseWs
    \/ TDropFrame
    \/ THandlePing
    \/ THandleError
    \/ THandleClose
    \/ THandleConnect
    \/ THandleConnectDenied
    \/ THandleData
    \/ TOnWsClose
    \/ TReadTimeout
    \/ TDisposeFinish
    \/ \E h \in Conns : TDialOpened(h)
    \/ \E h \in Conns, cf \in BOOLEAN : TDialFailed(h, cf)
    \/ \E k \in Socks : TSinkDeliver(k)
    \/ \E k \in Socks : TSockError(k)
    \/ \E k \in Socks, cf \in BOOLEAN : TWriteFailed(k, cf)
    \/ \E k \in Socks : TPumpChunk(k)
    \/ \E k \in Socks : TPumpEnd(k)

\* ======================================================================
\* WebSocketSession, src/unnamed/part_000
\* ======================================================================
WIdle == [pc |-> "idle", i |-> 0, fp |-> 0]

WInit ==
    /\ wInbox = <<>>
    /\ wSentN = 0
    /\ wPeer = "open"
    /\ wState = "INIT"
    /\ wClosed = FALSE
    /\ wRemote = FALSE
    /\ wSock = "none"
    /\ wWsOpen = TRUE
    /\ wConn = WIdle
    /\ wSink = <<>>
    /\ wUp = <<>>
    /\ wPump = FALSE
    /\ wOut = <<>>
    /\ wChunks = 0
    /\ wCloses = 0
    /\ wErr = [n |-> 0, cf |-> FALSE]

\* sendError(): ws.send inside try/catch
WSendError == IF wWsOpen THEN Append(wOut, "ERROR") ELSE wOut

\* a step that does not reach close(): st, rem, sock as the step leaves them
WStay(st, rem, sock) ==
    /\ wState' = st
    /\ wRemote' = rem
    /\ wSock' = sock
    /\ UNCHANGED <<wClosed, wWsOpen, wCloses>>

\* close() called with state st: the locks are released, the socket the
\* session holds and the WebSocket are closed, the fields nulled
WClose(st, rem, sock) ==
    IF st = "CLOSED"
    THEN WStay(st, rem, sock)
    ELSE /\ wState' = "CLOSED"
         /\ wRemote' = FALSE
         /\ wSock' = IF rem THEN "closed" ELSE sock
         /\ wWsOpen' = FALSE
         /\ wClosed' = TRUE
         /\ wCloses' = wCloses + 1

\* handleConnect stands between its lines 599 and 600: nothing else runs
WBusy == wConn.pc = "announce"

\* ---- the client: any frame at any time
WKinds == {"CONNECT", "DATA", "BIN", "CLOSE", "PING"}

WClientSend(k, fp) ==
    /\ WOnly
    /\ UNCHANGED wErr
    /\ ~WBusy
    /\ wPeer = "open"
    /\ wSentN < MaxFrames
    /\ wSentN' = wSentN + 1
    /\ wInbox' = Append(wInbox,
                   Frame(k, IF k \in {"DATA", "BIN"} \/ (k = "CONNECT" /\ fp)
                            THEN wSentN + 1 ELSE 0))
    /\ UNCHANGED <<wPeer, wState, wClosed, wRemote, wSock, wWsOpen, wConn, wSink, wUp,
                   wPump, wOut, wChunks, wCloses>>

WClientCloseWs ==
    /\ WOnly
    /\ UNCHANGED wErr
    /\ ~WBusy
    /\ wPeer = "open"
    /\ wPeer' = "closed"
    /\ UNCHANGED <<wInbox, wSentN, wState, wClosed, wRemote, wSock, wWsOpen, wConn,
                   wSink, wUp, wPump, wOut, wChunks, wCloses>>

\* ---- onMessage
WDropFrame ==
    /\ WOnly
    /\ UNCHANGED wErr
    /\ ~WBusy
    /\ wInbox # <<>>
    /\ wState = "CLOSED"
    /\ wInbox' = Tail(wInbox)
    /\ UNCHANGED <<wSentN, wPeer, wState, wClosed, wRemote, wSock, wWsOpen, wConn,
                   wSink, wUp, wPump, wOut, wChunks, wCloses>>

WTakes(k) == ~WBusy /\ wInbox # <<>> /\ wInbox[1].k = k /\ wState # "CLOSED"

\* CONNECT: handleConnect up to the dial; outside INIT it throws into
\* onMessage's catch (sendError, close)
WHandleConnect ==
    /\ WOnly
    /\ UNCHANGED wErr
    /\ WTakes("CONNECT")
    /\ wInbox' = Tail(wInbox)
    /\ IF wState # "INIT"
       THEN /\ wOut' = WSendError
            /\ WClose(wState, wRemote, wSock)
            /\ UNCHANGED wConn
       ELSE /\ wConn' = [pc |-> "dial", i |-> 1, fp |-> wInbox[1].p]
            /\ WStay("CONNECTING", wRemote, "opening")
            /\ UNCHANGED wOut
    /\ UNCHANGED <<wSentN, wPeer, wSink, wUp, wPump, wChunks>>

\* DATA:<text> that closes the session after the error when not CONNECTED
WHandleDataClosing ==
    /\ WOnly
    /\ UNCHANGED wErr
    /\ WTakes("DATA")
    /\ wInbox' = Tail(wInbox)
    /\ IF wState = "CONNECTED"
       THEN /\ wSink' = IF wRemote THEN Append(wSink, Chunk(wInbox[1].p, 0)) ELSE wSink
            /\ WStay(wState, wRemote, wSock)
            /\ UNCHANGED wOut
       ELSE /\ wOut' = WSendError
            /\ WClose(wState, wRemote, wSock)
            /\ UNCHANGED wSink
    /\ UNCHANGED <<wSentN, wPeer, wConn, wUp, wPump, wChunks>>

\* DATA:<text>: sendRemote when CONNECTED, else sendError without close
WHandleData ==
    /\ WOnly
    /\ UNCHANGED wErr
    /\ WTakes("DATA")
    /\ wInbox' = Tail(wInbox)
    /\ IF wState = "CONNECTED"
       THEN /\ wSink' = IF wRemote THEN Append(wSink, Chunk(wInbox[1].p, 0)) ELSE wSink
            /\ UNCHANGED wOut
       ELSE /\ wOut' = WSendError
            /\ UNCHANGED wSink
    /\ UNCHANGED <<wSentN, wPeer, wState, wClosed, wRemote, wSock, wWsOpen, wConn, wUp,
                   wPump, wChunks, wCloses>>

\* a binary frame: forwardBinary looks at remoteWriter only
WHandleBinary ==
    /\ WOnly
    /\ UNCHANGED wErr
    /\ WTakes("BIN")
    /\ wInbox' = Tail(wInbox)
    /\ wSink' = IF wRemote THEN Append(wSink, Chunk(wInbox[1].p, 0)) ELSE wSink
    /\ UNCHANGED <<wSentN, wPeer, wState, wClosed, wRemote, wSock, wWsOpen, wConn, wUp,
                   wPump, wOut, wChunks, wCloses>>

WHandleClose ==
    /\ WOnly
    /\ UNCHANGED wErr
    /\ WTakes("CLOSE")
    /\ wInbox' = Tail(wInbox)
    /\ WClose(wState, wRemote, wSock)
    /\ UNCHANGED <<wSentN, wPeer, wConn, wSink, wUp, wPump, wOut, wChunks>>

\* any other text (PING, PONG, ERROR:..., unknown): no branch of handleControl
WHandleOther ==
    /\ WOnly
    /\ UNCHANGED wErr
    /\ WTakes("PING")
    /\ wInbox' = Tail(wInbox)
    /\ UNCHANGED <<wSentN, wPeer, wState, wClosed, wRemote, wSock, wWsOpen, wConn,
                   wSink, wUp, wPump, wOut, wChunks, wCloses>>

\* the close (or error) event of the WebSocket
WOnWsClose ==
    /\ WOnly
    /\ UNCHANGED wErr
    /\ ~WBusy
    /\ wPeer = "closed"
    /\ wInbox = <<>>
    /\ wPeer' = "notified"
    /\ WClose(wState, wRemote, wSock)
    /\ UNCHANGED <<wInbox, wSentN, wConn, wSink, wUp, wPump, wOut, wChunks>>

\* ---- handleConnect after the dial
\* connectWithFallback returns: remoteSocket, reader and writer are set and
\* the first payload written; without one, line 599 follows at once
WDialOpened ==
    /\ WOnly
    /\ UNCHANGED wErr
    /\ wConn.pc = "dial"
    /\ wSock = "opening"
    /\ IF wConn.fp # 0
       THEN /\ wSink' = Append(wSink, Chunk(wConn.fp, 1))
            /\ wConn' = [wConn EXCEPT !.pc = "write"]
            /\ WStay(wState, TRUE, "open")
       ELSE /\ wConn' = [wConn EXCEPT !.pc = "announce"]
            /\ WStay("CONNECTED", TRUE, "open")
            /\ UNCHANGED wSink
    /\ UNCHANGED <<wInbox, wSentN, wPeer, wUp, wPump, wOut, wChunks>>

\* connectWithFallback that goes on to the next address after any error
WDialFailedRetryAll(cf) ==
    /\ WOnly
    /\ wConn.pc = "dial"
    /\ wSock = "opening"
    /\ wErr' = [n |-> wErr.n + 1, cf |-> cf]
    /\ IF wConn.i < 1 + NumFallbacks
       THEN /\ wConn' = [wConn EXCEPT !.i = @ + 1]
            /\ WStay(wState, wRemote, wSock)
            /\ UNCHANGED wOut
       ELSE /\ wConn' = WIdle
            /\ wOut' = WSendError
            /\ WClose(wState, wRemote, "none")
    /\ UNCHANGED <<wInbox, wSentN, wPeer, wSink, wUp, wPump, wChunks>>

\* an attempt of connectWithFallback fails; cf: isCFError(err). The last
\* failure throws into onMessage's catch
WDialFailed(cf) ==
    /\ WOnly
    /\ wConn.pc = "dial"
    /\ wSock = "opening"
    /\ wErr' = [n |-> wErr.n + 1, cf |-> cf]
    /\ IF cf /\ wConn.i < 1 + NumFallbacks
       THEN /\ wConn' = [wConn EXCEPT !.i = @ + 1]
            /\ WStay(wState, wRemote, wSock)
            /\ UNCHANGED wOut
       ELSE /\ wConn' = WIdle
            /\ wOut' = WSendError
            /\ WClose(wState, wRemote, "none")
    /\ UNCHANGED <<wInbox, wSentN, wPeer, wSink, wUp, wPump, wChunks>>

\* lines 600-602: ws.send("CONNECTED") (it throws on a closed WebSocket, into
\* onMessage's catch) and pumpRemote() up to its first read
WAnnounce ==
    /\ WOnly
    /\ UNCHANGED wErr
    /\ wConn.pc = "announce"
    /\ wConn' = WIdle
    /\ IF wWsOpen
       THEN /\ wOut' = Append(wOut, "CONNECTED")
            /\ IF wClosed
               THEN WClose(wState, wRemote, wSock) /\ UNCHANGED wPump
               ELSE WStay(wState, wRemote, wSock) /\ wPump' = TRUE
       ELSE /\ WClose(wState, wRemote, wSock)
            /\ UNCHANGED <<wOut, wPump>>
    /\ UNCHANGED <<wInbox, wSentN, wPeer, wSink, wUp, wChunks>>

\* ---- the upstream socket
\* the oldest pending chunk goes out and its write promise resolves; for the
\* first payload handleConnect goes on to line 599
WSinkDeliver ==
    /\ WOnly
    /\ UNCHANGED wErr
    /\ ~WBusy
    /\ wSock = "open"
    /\ wSink # <<>>
    /\ wSink' = Tail(wSink)
    /\ wUp' = Append(wUp, wSink[1].p)
    /\ IF wSink[1].h = 0
       THEN WStay(wState, wRemote, wSock) /\ UNCHANGED wConn
       ELSE /\ wConn' = [wConn EXCEPT !.pc = "announce"]
            /\ WStay("CONNECTED", wRemote, wSock)
    /\ UNCHANGED <<wInbox, wSentN, wPeer, wPump, wOut, wChunks>>

\* a write pending on a socket that close() has closed rejects: sendError and
\* close() in sendRemote/forwardBinary or in onMessage's catch
WWriteFailed ==
    /\ WOnly
    /\ UNCHANGED wErr
    /\ ~WBusy
    /\ wSock = "closed"
    /\ wSink # <<>>
    /\ wSink' = Tail(wSink)
    /\ wConn' = IF wSink[1].h = 0 THEN wConn ELSE WIdle
    /\ wOut' = WSendError
    /\ WClose(wState, wRemote, wSock)
    /\ UNCHANGED <<wInbox, wSentN, wPeer, wUp, wPump, wChunks>>

\* ---- pumpRemote
WPumpChunk ==
    /\ WOnly
    /\ UNCHANGED wErr
    /\ ~WBusy
    /\ wPump
    /\ wSock = "open"
    /\ wChunks < MaxChunks
    /\ wChunks' = wChunks + 1
    /\ IF wWsOpen
       THEN /\ wOut' = Append(wOut, "BIN")
            /\ WStay(wState, wRemote, wSock)
            /\ UNCHANGED wPump
       ELSE /\ wPump' = FALSE
            /\ WClose(wState, wRemote, wSock)
            /\ UNCHANGED wOut
    /\ UNCHANGED <<wInbox, wSentN, wPeer, wConn, wSink, wUp>>

\* the read ends the loop: upstream EOF, or the lock released by close()
WPumpEnd ==
    /\ WOnly
    /\ UNCHANGED wErr
    /\ ~WBusy
    /\ wPump
    /\ wSock \in {"open", "closed"}
    /\ wPump' = FALSE
    /\ wOut' = IF wSock = "closed" THEN WSendError ELSE wOut
    /\ WClose(wState, wRemote, wSock)
    /\ UNCHANGED <<wInbox, wSentN, wPeer, wConn, wSink, wUp, wChunks>>

WNext ==
    \/ \E k \in WKinds, fp \in BOOLEAN : WClientSend(k, fp)
    \/ WClientCloseWs
    \/ WDropFrame
    \/ WHandleConnect
    \/ WHandleData
    \/ WHandleBinary
    \/ WHandleClose
    \/ WHandleOther
    \/ WOnWsClose
    \/ WDialOpened
    \/ \E cf \in BOOLEAN : WDialFailed(cf)
    \/ WAnnounce
    \/ WSinkDeliver
    \/ WWriteFailed
    \/ WPumpChunk
    \/ WPumpEnd

\* ======================================================================
\* The reverse direction of an established tunnel: _pumpRemote of the egress
\* (src/unnamed/part_000) and the Server -> Client loop of handleTunnel
\* (src/unnamed/part_002)
\* ======================================================================
Msg(mt, p) == [mt |-> mt, p |-> p]

\* CONNECTED has been exchanged: the pump reads, both ingress loops run
IInit ==
    /\ iUpState = "open"
    /\ iUpHist = <<>>
    /\ iUpBuf = <<>>
    /\ iPump = "run"
    /\ iWsOpen = TRUE
    /\ iWire = <<>>
    /\ iToEgress = <<>>
    /\ iReader = "run"
    /\ iLoop = "run"
    /\ iClient = <<>>
    /\ iTunnel = "run"
    /\ iKeep = "run"
    /\ iCloseSent = FALSE

\* ---- the upstream endpoint
IUpstreamSend ==
    /\ IOnly
    /\ UNCHANGED <<iTunnel, iKeep, iCloseSent>>
    /\ iUpState = "open"
    /\ Len(iUpHist) < MaxUp
    /\ iUpHist' = Append(iUpHist, Len(iUpHist) + 1)
    /\ iUpBuf' = Append(iUpBuf, Len(iUpHist) + 1)
    /\ UNCHANGED <<iUpState, iPump, iWsOpen, iWire, iToEgress, iReader, iLoop, iClient>>

\* EOF (ok) or a reset (~ok) of the upstream connection
IUpstreamStop(ok) ==
    /\ IOnly
    /\ UNCHANGED <<iTunnel, iKeep, iCloseSent>>
    /\ iUpState = "open"
    /\ iUpState' = IF ok THEN "ended" ELSE "errored"
    /\ iUpBuf' = IF ok THEN iUpBuf ELSE <<>>
    /\ UNCHANGED <<iUpHist, iPump, iWsOpen, iWire, iToEgress, iReader, iLoop, iClient>>

\* ---- _pumpRemote and _dispose of the egress
\* reader.read() yields a chunk: ws.send(value), a binary frame
IPumpChunk ==
    /\ IOnly
    /\ UNCHANGED <<iTunnel, iKeep, iCloseSent>>
    /\ iPump = "run"
    /\ iUpBuf # <<>>
    /\ iUpBuf' = Tail(iUpBuf)
    /\ IF iWsOpen
       THEN /\ iWire' = Append(iWire, Msg("binary", iUpBuf[1]))
            /\ UNCHANGED <<iPump, iWsOpen>>
       ELSE /\ iPump' = "done"
            /\ UNCHANGED <<iWire, iWsOpen>>
    /\ UNCHANGED <<iUpState, iUpHist, iToEgress, iReader, iLoop, iClient>>

\* reader.read() reports done: the loop breaks, finally _dispose() closes the
\* WebSocket
IPumpDone ==
    /\ IOnly
    /\ UNCHANGED <<iTunnel, iKeep, iCloseSent>>
    /\ iPump = "run"
    /\ iUpBuf = <<>>
    /\ iUpState = "ended"
    /\ iPump' = "done"
    /\ iWsOpen' = FALSE
    /\ UNCHANGED <<iUpState, iUpHist, iUpBuf, iWire, iToEgress, iReader, iLoop, iClient>>

\* reader.read() rejects: the catch block calls sendError(ws, e), a text
\* frame ERROR:{...}; finally _dispose()
IPumpError ==
    /\ IOnly
    /\ UNCHANGED <<iTunnel, iKeep, iCloseSent>>
    /\ iPump = "run"
    /\ iUpState = "errored"
    /\ iPump' = "done"
    /\ iWire' = IF iWsOpen THEN Append(iWire, Msg("text", "ERROR")) ELSE iWire
    /\ iWsOpen' = FALSE
    /\ UNCHANGED <<iUpState, iUpHist, iUpBuf, iToEgress, iReader, iLoop, iClient>>

\* the egress takes the ingress's CLOSE frame: _dispose()
IEgressClose ==
    /\ IOnly
    /\ UNCHANGED <<iTunnel, iKeep, iCloseSent>>
    /\ iToEgress # <<>>
    /\ iToEgress' = Tail(iToEgress)
    /\ iPump' = "done"
    /\ iWsOpen' = FALSE
    /\ UNCHANGED <<iUpState, iUpHist, iUpBuf, iWire, iReader, iLoop, iClient>>

\* ---- handleTunnel
\* Client -> Server: conn.Read fails (the client is gone), CLOSE is written
IClientEof ==
    /\ IOnly
    /\ UNCHANGED <<iTunnel, iKeep>>
    /\ iReader = "run"
    /\ iReader' = "done"
    /\ iToEgress' = IF iWsOpen /\ iTunnel = "run"
                    THEN Append(iToEgress, Msg("text", "CLOSE")) ELSE iToEgress
    /\ iCloseSent' = (iCloseSent \/ iTunnel = "run")
    /\ UNCHANGED <<iUpState, iUpHist, iUpBuf, iPump, iWsOpen, iWire, iLoop, iClient>>

\* Server -> Client: ReadMessage returns a message; a text CLOSE ends the
\* loop, every other message is written to the client socket (ok: the write
\* succeeds)
IRecv(ok) ==
    /\ IOnly
    /\ UNCHANGED <<iTunnel, iKeep, iCloseSent>>
    /\ iLoop = "run"
    /\ iTunnel = "run"
    /\ iWire # <<>>
    /\ iWire' = Tail(iWire)
    /\ IF iWire[1].mt = "text" /\ iWire[1].p = "CLOSE"
       THEN /\ ok
            /\ iLoop' = "done"
            /\ UNCHANGED iClient
       ELSE IF ok
            THEN /\ iClient' = Append(iClient, iWire[1])
                 /\ UNCHANGED iLoop
            ELSE /\ iLoop' = "done"
                 /\ UNCHANGED iClient
    /\ UNCHANGED <<iUpState, iUpHist, iUpBuf, iPump, iWsOpen, iToEgress, iReader>>

\* Server -> Client: ReadMessage fails, the WebSocket is closed by the egress
\* or by handleTunnel's deferred wsConn.Close()
IRecvClosed ==
    /\ IOnly
    /\ UNCHANGED <<iTunnel, iKeep, iCloseSent>>
    /\ iLoop = "run"
    /\ (iWire = <<>> /\ ~iWsOpen) \/ iTunnel # "run"
    /\ iLoop' = "done"
    /\ UNCHANGED <<iUpState, iUpHist, iUpBuf, iPump, iWsOpen, iWire, iToEgress, iReader,
                   iClient>>

\* <-done: one loop has ended; handleTunnel returns, its defers run
\* close(stopPing) and wsConn.Close()
ITunnelReturn ==
    /\ IOnly
    /\ iTunnel = "run"
    /\ iReader = "done" \/ iLoop = "done"
    /\ iTunnel' = "returned"
    /\ UNCHANGED <<iUpState, iUpHist, iUpBuf, iPump, iWsOpen, iWire, iToEgress, iReader,
                   iLoop, iClient, iKeep, iCloseSent>>

\* handleConnection's deferred conn.Close(): a blocked conn.Read of the
\* Client -> Server loop fails from now on
IConnClose ==
    /\ IOnly
    /\ iTunnel = "returned"
    /\ iTunnel' = "closed"
    /\ UNCHANGED <<iUpState, iUpHist, iUpBuf, iPump, iWsOpen, iWire, iToEgress, iReader,
                   iLoop, iClient, iKeep, iCloseSent>>

\* the keepalive goroutine takes the closed stopPing channel
IKeepaliveStop ==
    /\ IOnly
    /\ iKeep = "run"
    /\ iTunnel # "run"
    /\ iKeep' = "done"
    /\ UNCHANGED <<iUpState, iUpHist, iUpBuf, iPump, iWsOpen, iWire, iToEgress, iReader,
                   iLoop, iClient, iTunnel, iCloseSent>>

\* the egress gets the close event of a WebSocket the ingress has closed:
\* _onWsClose, _dispose()
IEgressOnClose ==
    /\ IOnly
    /\ UNCHANGED <<iTunnel, iKeep, iCloseSent>>
    /\ iTunnel # "run"
    /\ iWsOpen
    /\ iPump' = "done"
    /\ iWsOpen' = FALSE
    /\ UNCHANGED <<iUpState, iUpHist, iUpBuf, iWire, iToEgress, iReader, iLoop, iClient>>

INext ==
    \/ IUpstreamSend
    \/ \E ok \in BOOLEAN : IUpstreamStop(ok)
    \/ IPumpChunk
    \/ IPumpDone
    \/ IPumpError
    \/ IEgressClose
    \/ IClientEof
    \/ \E ok \in BOOLEAN : IRecv(ok)
    \/ IRecvClosed
    \/ ITunnelReturn
    \/ IConnClose
    \/ IKeepaliveStop
    \/ IEgressOnClose

\* ======================================================================
\* Admission: fetch and SessionPool of the pooled egress
\* (src/unnamed/part_000), and fetch of EchServer (src/src/index.js)
\* ======================================================================
\* what an upgrade offers in Sec-WebSocket-Protocol: nothing, the token,
\* another protocol, or a list that holds the token
Offers == {"none", "token", "other", "list"}

\* clientProtocols.includes(cfg.TOKEN) after split(",") and trim
PIncludesToken(offer) == offer \in {"token", "list"}

\* request.headers.get('Sec-WebSocket-Protocol') !== this.CONFIG.TOKEN
EHeaderIsToken(offer) == offer = "token"

\* a fetch that admits every upgrade, whatever it offers
PAuthorizedAlways(tok, offer) == TRUE

\* cfg.TOKEN && !clientProtocols.includes(cfg.TOKEN) is false
PAuthorized(tok, offer) == ~tok \/ PIncludesToken(offer)

\* acquire() that compares with > instead of >=
PoolHasRoomOffByOne(cur) == ~(cur > MaxSessions)

\* SessionPool.acquire(): false when current >= max
PoolHasRoom(cur) == ~(cur >= MaxSessions)

\* SessionPool.release()
PoolRelease(cur) == Max(cur - 1, 0)

\* fetch of the pooled egress for one upgrade: the response, whether the
\* token is echoed, the pool counter afterwards, the session it leaves
PFetch(tok, cur, offer, acceptOk) ==
    IF ~PAuthorized(tok, offer)
    THEN [resp |-> 401, echo |-> FALSE, cur |-> cur, sess |-> "rejected"]
    ELSE IF ~PoolHasRoom(cur)
    THEN [resp |-> 503, echo |-> FALSE, cur |-> cur, sess |-> "rejected"]
    ELSE IF ~acceptOk
    THEN [resp |-> 500, echo |-> FALSE, cur |-> PoolRelease(cur + 1), sess |-> "rejected"]
    ELSE [resp |-> 101, echo |-> tok /\ PIncludesToken(offer), cur |-> cur + 1,
          sess |-> "live"]

\* fetch of EchServer for the same upgrade: no pool
EFetch(tok, offer) ==
    IF tok /\ ~EHeaderIsToken(offer)
    THEN [resp |-> 401, echo |-> FALSE]
    ELSE [resp |-> 101, echo |-> tok]

PInit ==
    /\ pToken \in BOOLEAN
    /\ pCurrent = 0
    /\ pReq = <<>>
    /\ pSess = <<>>

\* an upgrade request arrives; acceptOk: serverWs.accept() does not throw
PUpgrade(offer, acceptOk) ==
    /\ POnly
    /\ Len(pReq) < MaxUpgrades
    /\ LET r == PFetch(pToken, pCurrent, offer, acceptOk)
           e == EFetch(pToken, offer) IN
        /\ pReq' = Append(pReq, [offer |-> offer, resp |-> r.resp, echo |-> r.echo,
                                 eresp |-> e.resp, eecho |-> e.echo])
        /\ pSess' = Append(pSess, r.sess)
        /\ pCurrent' = r.cur
    /\ UNCHANGED pToken

\* _dispose() that runs its body on every call
PDisposeUnlatched(s, rem) ==
    /\ POnly
    /\ s \in 1..Len(pSess)
    /\ pSess[s] # "rejected"
    /\ IF rem /\ pSess[s] = "live"
       THEN /\ pSess' = [pSess EXCEPT ![s] = "closing"]
            /\ UNCHANGED pCurrent
       ELSE /\ pSess' = [pSess EXCEPT ![s] = "released"]
            /\ pCurrent' = PoolRelease(pCurrent)
    /\ UNCHANGED <<pToken, pReq>>

\* _dispose() of session s, called for a CLOSE frame, a close or error event
\* of the WebSocket, the end of the pump, a handler's catch or the read
\* timeout; rem: the session holds a remote, whose close is awaited
PDispose(s, rem) ==
    /\ POnly
    /\ s \in 1..Len(pSess)
    /\ pSess[s] # "rejected"
    /\ IF pSess[s] # "live"
       THEN UNCHANGED <<pSess, pCurrent>>
       ELSE IF rem
            THEN /\ pSess' = [pSess EXCEPT ![s] = "closing"]
                 /\ UNCHANGED pCurrent
            ELSE /\ pSess' = [pSess EXCEPT ![s] = "released"]
                 /\ pCurrent' = PoolRelease(pCurrent)
    /\ UNCHANGED <<pToken, pReq>>

\* _dispose() after _closeRemote(): safeCloseWebSocket, release()
PDisposeFinish(s) ==
    /\ POnly
    /\ s \in 1..Len(pSess)
    /\ pSess[s] = "closing"
    /\ pSess' = [pSess EXCEPT ![s] = "released"]
    /\ pCurrent' = PoolRelease(pCurrent)
    /\ UNCHANGED <<pToken, pReq>>

PNext ==
    \/ \E offer \in Offers, acceptOk \in BOOLEAN : PUpgrade(offer, acceptOk)
    \/ \E s \in 1..MaxUpgrades, rem \in BOOLEAN : PDispose(s, rem)
    \/ \E s \in 1..MaxUpgrades : PDisposeFinish(s)

\* the sessions that hold a slot: accepted, release() not yet called
PLive == {s \in 1..Len(pSess) : pSess[s] \in {"live", "closing"}}

\* ======================================================================
\* ProxyServer lifecycle: the accept loop, handleConnection and Stop
\* (src/unnamed/part_002). A goroutine step is one action; Stop holds ps.mu
\* from its first to its last statement, so a handler's read of isRunning
\* falls before or after it, while addConnection (ps.connMu) may fall
\* between Stop's closing of the active connections and its last statement
\* ======================================================================
GConns == 1..MaxConns

\* after Start: listening, nothing accepted
GInit ==
    /\ gIsRunning = TRUE
    /\ gStop = "idle"
    /\ gListener = "open"
    /\ gAccept = "run"
    /\ gPc = [c \in GConns |-> "none"]
    /\ gSock = [c \in GConns |-> "none"]
    /\ gActive = {}

\* ps.mu.RLock() can be taken: Stop is not inside its critical section
GMuFree == gStop # "stopping"

\* a handler that trusts the isRunning it read in handleConnection
GStillRunningStale == TRUE

\* the re-read of ps.isRunning under ps.mu.RLock() in handleSOCKS5,
\* handleHTTP, handleTunnel and handleDirectConnection
GStillRunning == gIsRunning

\* handleConnection returns: the deferred conn.Close() and removeConnection
GReturn(c) ==
    /\ gPc' = [gPc EXCEPT ![c] = "done"]
    /\ gSock' = [gSock EXCEPT ![c] = "closed"]
    /\ gActive' = gActive \ {c}
    /\ UNCHANGED <<gIsRunning, gStop, gListener, gAccept>>

\* the handler moves on to position pc
GGoto(c, pc) ==
    /\ gPc' = [gPc EXCEPT ![c] = pc]
    /\ UNCHANGED <<gIsRunning, gStop, gListener, gAccept, gSock, gActive>>

\* listener.Accept() returns a connection: go ps.handleConnection(conn)
GAccept(c) ==
    /\ GOnly
    /\ gAccept = "run"
    /\ gListener = "open"
    /\ gPc[c] = "none"
    /\ gPc' = [gPc EXCEPT ![c] = "spawned"]
    /\ gSock' = [gSock EXCEPT ![c] = "open"]
    /\ UNCHANGED <<gIsRunning, gStop, gListener, gAccept, gActive>>

\* listener.Accept() fails on the closed listener; stopChan is closed, the
\* goroutine returns
GAcceptLoopEnd ==
    /\ GOnly
    /\ gAccept = "run"
    /\ gListener = "closed"
    /\ gAccept' = "done"
    /\ UNCHANGED <<gIsRunning, gStop, gListener, gPc, gSock, gActive>>

\* Stop up to its last statement: close(stopChan), listener.Close(), every
\* connection of activeConns closed and deleted
GStopBegin ==
    /\ GOnly
    /\ gStop = "idle"
    /\ gIsRunning
    /\ gStop' = "stopping"
    /\ gListener' = "closed"
    /\ gSock' = [c \in GConns |-> IF c \in gActive THEN "closed" ELSE gSock[c]]
    /\ gActive' = {}
    /\ UNCHANGED <<gIsRunning, gAccept, gPc>>

\* ps.isRunning = false, the deferred ps.mu.Unlock(): Stop returns
GStopEnd ==
    /\ GOnly
    /\ gStop = "stopping"
    /\ gStop' = "stopped"
    /\ gIsRunning' = FALSE
    /\ UNCHANGED <<gListener, gAccept, gPc, gSock, gActive>>

\* handleConnection: the first read of isRunning
GCheck(c) ==
    /\ GOnly
    /\ gPc[c] = "spawned"
    /\ GMuFree
    /\ IF gIsRunning THEN GGoto(c, "checked") ELSE GReturn(c)

\* conn.SetDeadline(300 s), ps.addConnection(conn)
GRegister(c) ==
    /\ GOnly
    /\ gPc[c] = "checked"
    /\ gPc' = [gPc EXCEPT ![c] = "first"]
    /\ gActive' = gActive \cup {c}
    /\ UNCHANGED <<gIsRunning, gStop, gListener, gAccept, gSock>>

\* conn.Read of the first byte: ok, a byte of a known protocol; else an
\* error (closed socket, the deadline, EOF) or an unknown protocol
GFirstByte(c, ok) ==
    /\ GOnly
    /\ gPc[c] = "first"
    /\ ok => gSock[c] = "open"
    /\ IF ok THEN GGoto(c, "proto") ELSE GReturn(c)

\* handleSOCKS5 / handleHTTP: isRunning is read again
GProtoCheck(c) ==
    /\ GOnly
    /\ gPc[c] = "proto"
    /\ GMuFree
    /\ IF GStillRunning THEN GGoto(c, "request") ELSE GReturn(c)

\* the handshake and the request are read from the connection
GRequest(c, ok) ==
    /\ GOnly
    /\ gPc[c] = "request"
    /\ ok => gSock[c] = "open"
    /\ IF ok THEN GGoto(c, "tunnel") ELSE GReturn(c)

\* handleTunnel / handleDirectConnection: isRunning is read again; then the
\* dial, the keepalive goroutine and the two copy loops
GTunnelCheck(c) ==
    /\ GOnly
    /\ gPc[c] = "tunnel"
    /\ GMuFree
    /\ IF GStillRunning THEN GGoto(c, "relay") ELSE GReturn(c)

\* the client or the egress ends the tunnel
GClientLeaves(c) ==
    /\ GOnly
    /\ gPc[c] = "relay"
    /\ gSock[c] = "open"
    /\ GReturn(c)

\* conn.Read / conn.Write fail on the closed connection: the copy loops end,
\* handleTunnel returns, close(stopPing) ends the keepalive goroutine
GRelayFails(c) ==
    /\ GOnly
    /\ gPc[c] = "relay"
    /\ gSock[c] = "closed"
    /\ GReturn(c)

\* what the Go scheduler and the read deadlines make happen
GForced(c) ==
    \/ GCheck(c)
    \/ GRegister(c)
    \/ \E ok \in BOOLEAN : GFirstByte(c, ok)
    \/ GProtoCheck(c)
    \/ \E ok \in BOOLEAN : GRequest(c, ok)
    \/ GTunnelCheck(c)
    \/ GRelayFails(c)

GNext ==
    \/ \E c \in GConns : GAccept(c)
    \/ GAcceptLoopEnd
    \/ GStopBegin
    \/ GStopEnd
    \/ \E c \in GConns : GCheck(c)
    \/ \E c \in GConns : GRegister(c)
    \/ \E c \in GConns, ok \in BOOLEAN : GFirstByte(c, ok)
    \/ \E c \in GConns : GProtoCheck(c)
    \/ \E c \in GConns, ok \in BOOLEAN : GRequest(c, ok)
    \/ \E c \in GConns : GTunnelCheck(c)
    \/ \E c \in GConns : GClientLeaves(c)
    \/ \E c \in GConns : GRelayFails(c)

\* runnable goroutines run, Stop once entered finishes, and a read under a
\* deadline or on a closed connection returns
GFair ==
    /\ WF_vars(GAcceptLoopEnd)
    /\ WF_vars(GStopEnd)
    /\ \A c \in GConns : WF_vars(GForced(c))

\* ======================================================================
\* Handler functions of the ingress (src/unnamed/part_002): each action is
\* one call on a request drawn from a bounded set, hCall what the call did
\* ======================================================================
\* ps.chinaIPRanges as loadChinaIPList leaves it: ranges with 0 < start <=
\* end, sorted by start (overlaps are kept)
HTables ==
    LET R == {r \in [start : 1..MaxAddr, end : 1..MaxAddr] : r.start <= r.end}
    IN  {t \in UNION {[1..n -> R] : n \in 0..MaxRanges} :
            \A i \in 1..Len(t) - 1 : t[i].start <= t[i + 1].start}

\* a target host: an IP literal, or a name with what net.LookupIP returns
HHosts ==
    [ip : {TRUE}, a : 0..MaxAddr, addrs : {{}}, err : {FALSE}]
        \cup [ip : {FALSE}, a : {0}, addrs : SUBSET (0..MaxAddr), err : BOOLEAN]

\* isChinaIP: the binary search of the range table
isChinaIP(a, table) ==
    LET RECURSIVE search(_, _)
        search(left, right) ==
            IF left < right
            THEN LET mid == (left + right) \div 2
                     r == table[mid + 1]
                 IN  IF a < r.start THEN search(left, mid)
                     ELSE IF a > r.end THEN search(mid + 1, right)
                     ELSE TRUE
            ELSE FALSE
    IN  a # 0 /\ search(0, Len(table))

\* a shouldBypassProxy without its "none" branch
shouldBypassProxyNoNone(mode, host, table) ==
    IF mode = "bypass_cn"
    THEN IF host.ip THEN isChinaIP(host.a, table)
         ELSE ~host.err /\ \E a \in host.addrs : isChinaIP(a, table)
    ELSE FALSE

shouldBypassProxy(mode, host, table) ==
    IF mode = "none" THEN TRUE
    ELSE IF mode = "global" THEN FALSE
    ELSE IF mode = "bypass_cn"
    THEN IF host.ip THEN isChinaIP(host.a, table)
         ELSE ~host.err /\ \E a \in host.addrs : isChinaIP(a, table)
    ELSE FALSE

HInit == hCall = [fn |-> "none"]

\* handleTunnel up to its dial: handleDirectConnection dials the target,
\* else dialWebSocketWithECH dials the egress
HTunnelRoute ==
    /\ HOnly
    /\ hCall.fn = "none"
    /\ \E mode \in {"none", "global", "bypass_cn"}, host \in HHosts, table \in HTables :
         LET bypass == shouldBypassProxy(mode, host, table) IN
         hCall' = [fn |-> "handleTunnel", mode |-> mode, host |-> host, table |-> table,
                   direct |-> bypass, ws |-> ~bypass]

\* ---- the CONNECT frame as the egress variants take it apart. A string is
\* a sequence of characters; "CONNECT" and the port numbers stand for runs of
\* letters and digits (no two runs of digits are adjacent), "h" for a host
\* name, "d" for payload. Positions are JavaScript's, from 0. No address of
\* the bounded set starts with "["
HTexts ==
    LET A == {"h", ":", "|", "0", "443", "65536", "d"}
        D == {"0", "443", "65536"}
        B == {b \in UNION {[1..n -> A] : n \in 0..MaxBody} :
                \A i \in 1..Len(b) - 1 : ~(b[i] \in D /\ b[i + 1] \in D)}
    IN  {<<"CONNECT", ":">> \o b : b \in B}

\* String.prototype.indexOf(c, from) and lastIndexOf(c): -1 when absent
JSIndexOf(str, c, from) ==
    LET I == {i \in from..Len(str) - 1 : str[i + 1] = c}
    IN  IF I = {} THEN -1 ELSE CHOOSE i \in I : \A j \in I : i <= j

JSLastIndexOf(str, c) ==
    LET I == {i \in 0..Len(str) - 1 : str[i + 1] = c}
    IN  IF I = {} THEN -1 ELSE CHOOSE i \in I : \A j \in I : i >= j

\* String.prototype.substring(a, b): arguments clamped to 0..length and
\* swapped when a > b
JSSubstring(str, a, b) ==
    LET clamp(x) == IF x < 0 THEN 0 ELSE IF x > Len(str) THEN Len(str) ELSE x
        lo == IF clamp(a) <= clamp(b) THEN clamp(a) ELSE clamp(b)
        hi == IF clamp(a) <= clamp(b) THEN clamp(b) ELSE clamp(a)
    IN  SubSeq(str, lo + 1, hi)

\* Number(str) and parseInt(str, 10) of a port string; -1 stands for NaN
JSNumber(str) ==
    IF str = <<>> THEN 0
    ELSE IF Len(str) = 1 /\ str[1] \in {"0", "443", "65536"}
    THEN (IF str[1] = "0" THEN 0 ELSE IF str[1] = "443" THEN 443 ELSE 65536)
    ELSE -1

JSParseInt(str) == IF str = <<>> THEN -1 ELSE JSNumber(<<str[1]>>)

\* what a variant does with the frame: err (ERROR sent, session closed, no
\* dial), or a dial of host:port followed by a write of first if not empty
HRejected == [err |-> TRUE, host |-> <<>>, port |-> 0, first |-> <<>>]

\* TcpWsSession: _onWsMessage (CONNECT), parseAddress, _connectRemote
TParseConnect(text) ==
    LET payload == SubSeq(text, 3, Len(text))
        sepIndex == JSIndexOf(payload, "|", 0)
        target == IF sepIndex >= 0 THEN SubSeq(payload, 1, sepIndex) ELSE payload
        first == IF sepIndex >= 0 THEN SubSeq(payload, sepIndex + 2, Len(payload)) ELSE <<>>
        colonIndex == JSLastIndexOf(target, ":")
        port == JSNumber(SubSeq(target, colonIndex + 2, Len(target)))
    IN  IF target = <<>> \/ colonIndex <= 0 THEN HRejected
        ELSE IF port <= 0 \/ port > 65535 THEN HRejected
        ELSE [err |-> FALSE, host |-> SubSeq(target, 1, colonIndex), port |-> port,
              first |-> first]

\* wsSession: handleMessage (CONNECT), EchServer.parseAddress, connectToRemote
QParseConnect(text) ==
    LET sepIndex == JSIndexOf(text, "|", 2)
        targetAddr == JSSubstring(text, 2, sepIndex)
        firstFrame == JSSubstring(text, sepIndex + 1, Len(text))
        sep == JSLastIndexOf(targetAddr, ":")
        n == JSParseInt(JSSubstring(targetAddr, sep + 1, Len(targetAddr)))
    IN  IF targetAddr = <<>> \/ sep = -1 THEN HRejected
        ELSE [err |-> FALSE, host |-> JSSubstring(targetAddr, 0, sep),
              port |-> IF n = -1 \/ n = 0 THEN 443 ELSE n, first |-> firstFrame]

\* WebSocketSession: handleConnect, parseAddress, connectWithFallback (which
\* skips the target when Number(port) is not an integer)
WParseConnect(text) ==
    LET sep == JSIndexOf(text, "|", 2)
        target == SubSeq(text, 3, sep)
        colonIndex == JSLastIndexOf(target, ":")
        port == JSNumber(SubSeq(target, colonIndex + 2, Len(target)))
    IN  IF sep < 0 \/ target = <<>> \/ colonIndex <= 0 \/ port = -1 THEN HRejected
        ELSE [err |-> FALSE, host |-> SubSeq(target, 1, colonIndex), port |-> port,
              first |-> SubSeq(text, sep + 2, Len(text))]

\* one CONNECT frame taken by each variant
HEgressConnect ==
    /\ HOnly
    /\ hCall.fn = "none"
    /\ \E text \in HTexts :
         hCall' = [fn |-> "CONNECT", text |-> text, t |-> TParseConnect(text),
                   q |-> QParseConnect(text), w |-> WParseConnect(text)]

\* ----------------------------------------------------------------------
\* handleHTTP, forward-proxy methods (src/unnamed/part_002:1550-1562): the
\* request body. The Content-Length header is absent or scanned with %d into
\* an int; the client has sent avail bytes after the header block and then
\* closed its side. Bodies are counted, not stored
\* ----------------------------------------------------------------------
HBodyLimit == 10 * 1024 * 1024

HLengths == {-1, 0, 1, HBodyLimit - 1, HBodyLimit, HBodyLimit + 1}

HAvail == {0, 1, HBodyLimit - 1, HBodyLimit, HBodyLimit + 1}

\* io.ReadFull(reader, body): all of len(body) or an error
ReadFull(length, avail) == IF avail >= length THEN length ELSE -1

\* bytes of body appended to firstFrame
HTTPBody(hasCl, length, avail) ==
    IF hasCl /\ length > 0 /\ length < HBodyLimit /\ ReadFull(length, avail) # -1
    THEN length
    ELSE 0

HHandleHTTP ==
    /\ HOnly
    /\ hCall.fn = "none"
    /\ \E hasCl \in BOOLEAN, length \in HLengths, avail \in HAvail :
         hCall' = [fn |-> "HTTP", hasCl |-> hasCl, length |-> length,
                   avail |-> avail, body |-> HTTPBody(hasCl, length, avail)]

\* ----------------------------------------------------------------------
\* handleSOCKS5, CMD 0x01 (src/unnamed/part_002:1201-1255): the target
\* string, as a sequence of tokens. "ip4", "name" and "ip6" stand for the
\* text of the address bytes, ports for their decimal text
\* ----------------------------------------------------------------------
\* the switch on atyp: net.IP(buf).String(), string(domainBuf), or the
\* address already wrapped by Sprintf("[%s]")
Socks5Host(atyp) ==
    CASE atyp = 1 -> <<"ip4">>
      [] atyp = 3 -> <<"name">>
      [] atyp = 4 -> <<"[", "ip6", "]">>

\* the switch on command, case 0x01
Socks5Target(atyp, port) ==
    IF atyp = 4 THEN <<"[">> \o Socks5Host(atyp) \o <<"]", ":", port>>
    ELSE Socks5Host(atyp) \o <<":", port>>

\* handleTunnel's connectMsg
ConnectMsg(target, firstFrame) == <<"CONNECT", ":">> \o target \o <<"|">> \o firstFrame

HHandleSOCKS5 ==
    /\ HOnly
    /\ hCall.fn = "none"
    /\ \E atyp \in {1, 3, 4}, port \in {"80", "443"}, first \in {<<>>, <<"d">>} :
         hCall' = [fn |-> "SOCKS5", atyp |-> atyp, port |-> port, first |-> first,
                   target |-> Socks5Target(atyp, port),
                   frame |-> ConnectMsg(Socks5Target(atyp, port), first)]

\* ----------------------------------------------------------------------
\* The range tables (src/unnamed/part_002:284-364, 400-614). An IPv4 address
\* is its uint32; an IPv6 address is its byte array, here of two bytes, each
\* 0 or 1. A list file is the sequence of its lines that parse, as [start, end]
\* ----------------------------------------------------------------------
HAddrsV6 == [1..2 -> {0, 1}]

compareIPv6(a, b) ==
    LET RECURSIVE cmp(_)
        cmp(i) == IF i > Len(a) THEN 0
                  ELSE IF a[i] < b[i] THEN -1
                  ELSE IF a[i] > b[i] THEN 1
                  ELSE cmp(i + 1)
    IN  cmp(1)

\* ps.chinaIPV6Ranges as stored: start <= end, sorted by start, overlaps kept
HTablesV6 ==
    LET R == {r \in [start : HAddrsV6, end : HAddrsV6] : compareIPv6(r.start, r.end) <= 0}
    IN  {t \in UNION {[1..n -> R] : n \in 0..MaxRanges} :
            \A i \in 1..Len(t) - 1 : compareIPv6(t[i].start, t[i + 1].start) <= 0}

\* isChinaIP, the IPv6 half
isChinaIPv6(a, table) ==
    LET RECURSIVE search(_, _)
        search(left, right) ==
            IF left < right
            THEN LET mid == (left + right) \div 2
                     r == table[mid + 1]
                 IN  IF compareIPv6(a, r.start) < 0 THEN search(left, mid)
                     ELSE IF compareIPv6(a, r.end) > 0 THEN search(mid + 1, right)
                     ELSE TRUE
            ELSE FALSE
    IN  search(0, Len(table))

\* one lookup: v6 tells the family of the address
HIsChinaIP ==
    /\ HOnly
    /\ hCall.fn = "none"
    /\ \/ \E a \in 0..MaxAddr, table \in HTables :
            hCall' = [fn |-> "isChinaIP", v6 |-> FALSE, a |-> a, table |-> table,
                      res |-> isChinaIP(a, table)]
       \/ \E a \in HAddrsV6, table \in HTablesV6 :
            hCall' = [fn |-> "isChinaIP", v6 |-> TRUE, a |-> a, table |-> table,
                      res |-> isChinaIPv6(a, table)]

\* the sort of both loaders: for each i the least start of ranges[i..] is
\* found (the first one among equals) and swapped into place; v6 tells
\* whether starts are compared by compareIPv6 or as uint32
SortByStart(ranges, v6) ==
    LET n == Len(ranges)
        Less(x, y) == IF v6 THEN compareIPv6(x, y) < 0 ELSE x < y
        RECURSIVE minIdx(_, _, _)
        minIdx(rs, m, j) ==
            IF j > n THEN m
            ELSE minIdx(rs, IF Less(rs[j].start, rs[m].start) THEN j ELSE m, j + 1)
        swap(rs, i, m) == [rs EXCEPT ![i] = rs[m], ![m] = rs[i]]
        RECURSIVE outer(_, _)
        outer(rs, i) ==
            IF i >= n THEN rs ELSE outer(swap(rs, i, minIdx(rs, i, i + 1)), i + 1)
    IN  outer(ranges, 1)

\* a sort that only moves the least start to the front
SortFirstOnly(ranges, v6) ==
    LET n == Len(ranges)
        Less(x, y) == IF v6 THEN compareIPv6(x, y) < 0 ELSE x < y
        RECURSIVE minIdx(_, _, _)
        minIdx(rs, m, j) ==
            IF j > n THEN m
            ELSE minIdx(rs, IF Less(rs[j].start, rs[m].start) THEN j ELSE m, j + 1)
    IN  IF n < 2 THEN ranges
        ELSE [ranges EXCEPT ![1] = ranges[minIdx(ranges, 1, 2)],
                            ![minIdx(ranges, 1, 2)] = ranges[1]]

\* the lines loadChinaIPList keeps
ValidV4(r) == r.start > 0 /\ r.end > 0 /\ r.start <= r.end

\* the lines loadChinaIPV6List keeps
ValidV6(r) == compareIPv6(r.start, r.end) <= 0

\* a loader whose sort stops after its first pass
loadChinaIPListFirstOnly(file, old) ==
    LET ranges == SelectSeq(file, ValidV4)
    IN  IF ranges = <<>> THEN old ELSE SortFirstOnly(ranges, FALSE)

\* loadChinaIPList: no valid line is an error and the table stays as it was
loadChinaIPList(file, old) ==
    LET ranges == SelectSeq(file, ValidV4)
    IN  IF ranges = <<>> THEN old ELSE SortByStart(ranges, FALSE)

\* loadChinaIPV6List: no valid line returns nil and the table stays as it was
loadChinaIPV6List(file, old) ==
    LET ranges == SelectSeq(file, ValidV6)
    IN  IF ranges = <<>> THEN old
        ELSE SortByStart(ranges, TRUE)

MaxLines == 3

\* Start loads the lists of a new ProxyServer, whose tables are empty
HLoadLists ==
    /\ HOnly
    /\ hCall.fn = "none"
    /\ \/ \E file \in UNION {[1..n -> [start : 0..MaxAddr, end : 0..MaxAddr]] :
                                 n \in 0..MaxLines} :
            hCall' = [fn |-> "load", v6 |-> FALSE, file |-> file,
                      table |-> loadChinaIPList(file, <<>>)]
       \/ \E file \in UNION {[1..n -> [start : HAddrsV6, end : HAddrsV6]] :
                                 n \in 0..MaxLines} :
            hCall' = [fn |-> "load", v6 |-> TRUE, file |-> file,
                      table |-> loadChinaIPV6List(file, <<>>)]

HNext ==
    \/ HIsChinaIP
    \/ HLoadLists
    \/ HTunnelRoute
    \/ HEgressConnect
    \/ HHandleHTTP
    \/ HHandleSOCKS5

\* ======================================================================
\* SOCKS5 UDP ASSOCIATE (src/unnamed/part_002): handleUDPAssociate waits on
\* the TCP connection, handleUDPRelay reads datagrams into one buffer and
\* starts a handleDNSQuery goroutine per datagram to port 53. The goroutine
\* gets slices of the relay's buffer, so what it reads is what the buffer
\* holds when it reads; datagram d has header d and DNS payload d, and the
\* DoH response to payload q is written q
\* ======================================================================
UInit ==
    /\ uTcp = "open"
    /\ uAssoc = "wait"
    /\ uUdp = "open"
    /\ uRelay = "run"
    /\ uRecvN = 0
    /\ uBuf = 0
    /\ uJob = [d \in 1..MaxDgrams |-> [pc |-> "none", q |-> 0]]
    /\ uReplies = {}

\* the client closes the TCP control connection
UClientCloseTcp ==
    /\ UOnly
    /\ uTcp = "open"
    /\ uTcp' = "closed"
    /\ UNCHANGED <<uAssoc, uUdp, uRelay, uRecvN, uBuf, uJob, uReplies>>

\* tcpConn.Read returns: close(stopChan)
UAssocWake ==
    /\ UOnly
    /\ uAssoc = "wait"
    /\ uTcp = "closed"
    /\ uAssoc' = "stopping"
    /\ UNCHANGED <<uTcp, uUdp, uRelay, uRecvN, uBuf, uJob, uReplies>>

\* a handleUDPAssociate that returns without udpConn.Close()
UAssocKeepUdp ==
    /\ UOnly
    /\ uAssoc = "stopping"
    /\ uAssoc' = "done"
    /\ UNCHANGED <<uTcp, uUdp, uRelay, uRecvN, uBuf, uJob, uReplies>>

\* udpConn.Close(), handleUDPAssociate returns
UAssocCloseUdp ==
    /\ UOnly
    /\ uAssoc = "stopping"
    /\ uAssoc' = "done"
    /\ uUdp' = "closed"
    /\ UNCHANGED <<uTcp, uRelay, uRecvN, uBuf, uJob, uReplies>>

\* ReadFromUDP returns the next datagram into buf; to port 53 (dns) it
\* starts handleDNSQuery with slices of buf. A read that was pending when
\* stopChan was closed is the loop's last
URelayRecv(dns) ==
    /\ UOnly
    /\ uRelay = "run"
    /\ uUdp = "open"
    /\ uRecvN < MaxDgrams
    /\ uRecvN' = uRecvN + 1
    /\ uBuf' = uRecvN + 1
    /\ uJob' = IF dns THEN [uJob EXCEPT ![uRecvN + 1].pc = "spawned"] ELSE uJob
    /\ uRelay' = IF uAssoc = "wait" THEN "run" ELSE "done"
    /\ UNCHANGED <<uTcp, uAssoc, uUdp, uReplies>>

\* the loop takes <-stopChan, or ReadFromUDP fails on the closed socket
URelayStop ==
    /\ UOnly
    /\ uRelay = "run"
    /\ uAssoc # "wait"
    /\ uRelay' = "done"
    /\ UNCHANGED <<uTcp, uAssoc, uUdp, uRecvN, uBuf, uJob, uReplies>>

\* handleDNSQuery: queryDoHForProxy(dnsQuery) reads the query bytes from buf
UJobQuery(d) ==
    /\ UOnly
    /\ uJob[d].pc = "spawned"
    /\ uJob' = [uJob EXCEPT ![d] = [pc |-> "queried", q |-> uBuf]]
    /\ UNCHANGED <<uTcp, uAssoc, uUdp, uRelay, uRecvN, uBuf, uReplies>>

\* handleDNSQuery: the response is appended to socks5Header (read from buf)
\* and written with WriteToUDP, which fails on a closed socket; ok: the DoH
\* query succeeded
UJobReply(d, ok) ==
    /\ UOnly
    /\ uJob[d].pc = "queried"
    /\ uJob' = [uJob EXCEPT ![d].pc = "done"]
    /\ uReplies' = IF ok /\ uUdp = "open"
                   THEN uReplies \cup {[d |-> d, hdr |-> uBuf, ans |-> uJob[d].q]}
                   ELSE uReplies
    /\ UNCHANGED <<uTcp, uAssoc, uUdp, uRelay, uRecvN, uBuf>>

UNext ==
    \/ UClientCloseTcp
    \/ UAssocWake
    \/ UAssocCloseUdp
    \/ \E dns \in BOOLEAN : URelayRecv(dns)
    \/ URelayStop
    \/ \E d \in 1..MaxDgrams : UJobQuery(d)
    \/ \E d \in 1..MaxDgrams, ok \in BOOLEAN : UJobReply(d, ok)

\* runnable goroutines run; ReadFromUDP has a deadline of one second
UFair == WF_vars(UAssocWake) /\ WF_vars(UAssocCloseUdp) /\ WF_vars(URelayStop)

\* ======================================================================
\* The writers of wsConn in one handleTunnel call (src/unnamed/part_002:
\* 1627-1723): the keepalive goroutine, the CONNECT send of handleTunnel
\* itself and the client -> server goroutine. Each takes mu before
\* WriteMessage and releases it after; a position "write", "connect", "data"
\* or "close" is inside WriteMessage
\* ======================================================================
MaxWrites == 3

MInit ==
    /\ mu = "free"
    /\ mPing = "wait"
    /\ mMain = "first"
    /\ mCopy = "off"
    /\ mLog = <<>>

\* a keepalive goroutine that writes its ping without taking the lock
MPingTickNoLock ==
    /\ MOnly
    /\ mPing = "wait"
    /\ Len(mLog) < MaxWrites
    /\ mPing' = "write"
    /\ UNCHANGED <<mu, mMain, mCopy, mLog>>

\* case <-ticker.C: mu.Lock(), then SetDeadline and WriteMessage(Ping)
MPingTick ==
    /\ MOnly
    /\ mPing = "wait"
    /\ mu = "free"
    /\ Len(mLog) < MaxWrites
    /\ mu' = "ping"
    /\ mPing' = "write"
    /\ UNCHANGED <<mMain, mCopy, mLog>>

\* WriteMessage returns (its error is ignored); mu.Unlock()
MPingDone ==
    /\ MOnly
    /\ mPing = "write"
    /\ mLog' = Append(mLog, "ping")
    /\ mu' = "free"
    /\ mPing' = "wait"
    /\ UNCHANGED <<mMain, mCopy>>

\* case <-stopPing: the channel is closed when handleTunnel returns
MPingStop ==
    /\ MOnly
    /\ mPing = "wait"
    /\ mMain = "returned"
    /\ mPing' = "stopped"
    /\ UNCHANGED <<mu, mMain, mCopy, mLog>>

\* handleTunnel: mu.Lock() and WriteMessage(connectMsg)
MConnectSend ==
    /\ MOnly
    /\ mMain = "first"
    /\ mu = "free"
    /\ mu' = "main"
    /\ mMain' = "connect"
    /\ UNCHANGED <<mPing, mCopy, mLog>>

\* WriteMessage returns; mu.Unlock(); an error returns from handleTunnel
MConnectDone(ok) ==
    /\ MOnly
    /\ mMain = "connect"
    /\ mLog' = Append(mLog, "CONNECT")
    /\ mu' = "free"
    /\ mMain' = IF ok THEN "await" ELSE "returned"
    /\ UNCHANGED <<mPing, mCopy>>

\* the reply to CONNECT: CONNECTED starts the two copy goroutines, anything
\* else returns
MReply(connected) ==
    /\ MOnly
    /\ mMain = "await"
    /\ mMain' = IF connected THEN "relay" ELSE "returned"
    /\ mCopy' = IF connected THEN "read" ELSE mCopy
    /\ UNCHANGED <<mu, mPing, mLog>>

\* client -> server: conn.Read returned data or an error; mu.Lock() and
\* WriteMessage of the data or of CLOSE
MCopyWrite(eof) ==
    /\ MOnly
    /\ mCopy = "read"
    /\ mu = "free"
    /\ eof \/ Len(mLog) < MaxWrites
    /\ mu' = "copy"
    /\ mCopy' = IF eof THEN "close" ELSE "data"
    /\ UNCHANGED <<mPing, mMain, mLog>>

\* WriteMessage returns; mu.Unlock(); after CLOSE or a failed write the
\* goroutine signals done and ends
MCopyDone(ok) ==
    /\ MOnly
    /\ mCopy \in {"data", "close"}
    /\ mLog' = Append(mLog, IF mCopy = "close" THEN "CLOSE" ELSE "data")
    /\ mu' = "free"
    /\ mCopy' = IF mCopy = "data" /\ ok THEN "read" ELSE "done"
    /\ UNCHANGED <<mPing, mMain>>

\* <-done: either copy goroutine has signalled (the server -> client one may
\* at any time); handleTunnel returns and stopPing is closed
MTunnelReturn ==
    /\ MOnly
    /\ mMain = "relay"
    /\ mMain' = "returned"
    /\ UNCHANGED <<mu, mPing, mCopy, mLog>>

MNext ==
    \/ MPingTick
    \/ MPingDone
    \/ MPingStop
    \/ MConnectSend
    \/ \E ok \in BOOLEAN : MConnectDone(ok)
    \/ \E connected \in BOOLEAN : MReply(connected)
    \/ \E eof \in BOOLEAN : MCopyWrite(eof)
    \/ \E ok \in BOOLEAN : MCopyDone(ok)
    \/ MTunnelReturn

\* ======================================================================
\* One ProxyServer object (src/unnamed/part_002): NewProxyServer, Start,
\* Stop, the cached ECH ConfigList and dialWebSocketWithECH as handleTunnel
\* calls it. One tunnel dials at a time; the DoH query for the ECH record
\* and the WebSocket dial are inputs
\* ======================================================================
MaxCalls == 4

MaxTunnels == 2

\* handleTunnel: ps.dialWebSocketWithECH(2)
DialMaxRetries == 2

SDialIdle == [pc |-> "idle", attempt |-> 0, outs |-> <<>>, plain |-> FALSE]

\* NewProxyServer: stopChan is made here, and nowhere else
SInit ==
    /\ sIsRunning = FALSE
    /\ sStopChan = "open"
    /\ sPanic = FALSE
    /\ sCalls = 0
    /\ sStarted = FALSE
    /\ sEchLen = 0
    /\ sTunnels = 0
    /\ sDial = SDialIdle

\* a prepareECH that stores an empty list when the query fails
prepareECHClears(len, ok) == IF ok THEN 1 ELSE 0

\* prepareECH: a query that fails, finds no ech parameter or does not decode
\* returns before the store; otherwise the decoded bytes (never empty: an
\* empty parameter encodes to "" and is refused) replace the list
prepareECH(len, ok) == IF ok THEN 1 ELSE len

\* Start: refused when running; prepareECH, then runProxyServer (net.Listen)
SStart(echOk, listenOk) ==
    /\ SOnly
    /\ ~sPanic
    /\ sCalls < MaxCalls
    /\ sCalls' = sCalls + 1
    /\ IF sIsRunning
       THEN UNCHANGED <<sIsRunning, sStarted, sEchLen>>
       ELSE /\ sEchLen' = prepareECH(sEchLen, echOk)
            /\ sIsRunning' = (echOk /\ listenOk)
            /\ sStarted' = (sStarted \/ (echOk /\ listenOk))
    /\ UNCHANGED <<sStopChan, sPanic, sTunnels, sDial>>

\* Stop: returns when not running; close(ps.stopChan) panics on a closed
\* channel, before isRunning is reset and with ps.mu held
SStop ==
    /\ SOnly
    /\ ~sPanic
    /\ sCalls < MaxCalls
    /\ sCalls' = sCalls + 1
    /\ IF ~sIsRunning
       THEN UNCHANGED <<sIsRunning, sStopChan, sPanic>>
       ELSE IF sStopChan = "closed"
            THEN sPanic' = TRUE /\ UNCHANGED <<sIsRunning, sStopChan>>
            ELSE /\ sStopChan' = "closed"
                 /\ sIsRunning' = FALSE
                 /\ UNCHANGED sPanic
    /\ UNCHANGED <<sStarted, sEchLen, sTunnels, sDial>>

\* handleTunnel on the proxy route: only while the server is running
SDialBegin ==
    /\ SOnly
    /\ ~sPanic
    /\ sIsRunning
    /\ sDial.pc = "idle"
    /\ sTunnels < MaxTunnels
    /\ sTunnels' = sTunnels + 1
    /\ sDial' = [SDialIdle EXCEPT !.pc = "attempt", !.attempt = 1]
    /\ UNCHANGED <<sIsRunning, sStopChan, sPanic, sCalls, sStarted, sEchLen>>

\* a loop that retries after every failed dial while an attempt is left
SDialAttemptRetryAll(out) ==
    /\ SOnly
    /\ sDial.pc = "attempt"
    /\ sDial' = [sDial EXCEPT
                   !.outs = Append(@, out),
                   !.plain = (@ \/ sEchLen = 0),
                   !.pc = IF out # "ok" /\ sDial.attempt < DialMaxRetries
                          THEN "refresh" ELSE "done"]
    /\ UNCHANGED <<sIsRunning, sStopChan, sPanic, sCalls, sStarted, sEchLen, sTunnels>>

\* one pass of the loop: getECHList (plain TLS dialer if it fails), Dial;
\* out is "ok", "ECH" (an error whose text contains ECH) or "other"
SDialAttempt(out) ==
    /\ SOnly
    /\ sDial.pc = "attempt"
    /\ sDial' = [sDial EXCEPT
                   !.outs = Append(@, out),
                   !.plain = (@ \/ sEchLen = 0),
                   !.pc = IF out = "ECH" /\ sDial.attempt < DialMaxRetries
                          THEN "refresh" ELSE "done"]
    /\ UNCHANGED <<sIsRunning, sStopChan, sPanic, sCalls, sStarted, sEchLen, sTunnels>>

\* ps.refreshECH() (its error is dropped), time.Sleep(time.Second), continue
SDialRefresh(echOk) ==
    /\ SOnly
    /\ sDial.pc = "refresh"
    /\ sEchLen' = prepareECH(sEchLen, echOk)
    /\ sDial' = [sDial EXCEPT !.pc = "attempt", !.attempt = @ + 1]
    /\ UNCHANGED <<sIsRunning, sStopChan, sPanic, sCalls, sStarted, sTunnels>>

\* dialWebSocketWithECH has returned; handleTunnel goes on or gives up
SDialReturn ==
    /\ SOnly
    /\ sDial.pc = "done"
    /\ sDial' = SDialIdle
    /\ UNCHANGED <<sIsRunning, sStopChan, sPanic, sCalls, sStarted, sEchLen, sTunnels>>

SNext ==
    \/ \E echOk \in BOOLEAN, listenOk \in BOOLEAN : SStart(echOk, listenOk)
    \/ SStop
    \/ SDialBegin
    \/ \E out \in {"ok", "ECH", "other"} : SDialAttempt(out)
    \/ \E echOk \in BOOLEAN : SDialRefresh(echOk)
    \/ SDialReturn

\* ======================================================================
\* TcpWsSession._pumpRemote and waitForBackpressure (src/unnamed/part_000:
\* 152-159, 227-266). The session is connected and its pump is running; the
\* peer drains the WebSocket's buffer when it pleases; _dispose comes from
\* outside the pump (a CLOSE frame, the read timeout, the WebSocket closing)
\* or from the pump's own finally block
\* ======================================================================
MaxReads == 3

\* waitForBackpressure(ws, limit = 1 << 20)
BackpressureLimit == 1048576

\* Math.min(200, Math.round(delay * 1.5))
NextDelay(delay) == IF (3 * delay + 1) \div 2 > 200 THEN 200 ELSE (3 * delay + 1) \div 2

BInit ==
    /\ bPc = "read"
    /\ bClosed = FALSE
    /\ bWsOpen = TRUE
    /\ bAmount = 0
    /\ bDelay = 8
    /\ bObs = 0
    /\ bReads = 0
    /\ bSlept = <<>>

\* while (!this.closed): the loop ends, finally { await this._dispose() }
BLoopExit ==
    /\ BOnly
    /\ bPc = "read"
    /\ bClosed
    /\ bPc' = "done"
    /\ UNCHANGED <<bClosed, bWsOpen, bAmount, bDelay, bObs, bReads, bSlept>>

\* reader.read(): a chunk, or done (the upstream ended); break when done or
\* when the WebSocket is not open, else enter waitForBackpressure
BRead(done) ==
    /\ BOnly
    /\ bPc = "read"
    /\ ~bClosed
    /\ done \/ bReads < MaxReads
    /\ IF done \/ ~bWsOpen
       THEN /\ bPc' = "done"
            /\ bClosed' = TRUE
            /\ bWsOpen' = FALSE
            /\ UNCHANGED <<bDelay, bReads, bSlept>>
       ELSE /\ bPc' = "check"
            /\ bDelay' = 8
            /\ bSlept' = <<>>
            /\ bReads' = bReads + 1
            /\ UNCHANGED <<bClosed, bWsOpen>>
    /\ UNCHANGED <<bAmount, bObs>>

\* a wait that returns without looking at the buffered amount
BCheckNoWait ==
    /\ BOnly
    /\ bPc = "check"
    /\ bObs' = bAmount
    /\ bPc' = "send"
    /\ UNCHANGED <<bClosed, bWsOpen, bAmount, bDelay, bReads, bSlept>>

\* while (ws.bufferedAmount > limit): sleep, or return to the pump
BCheck ==
    /\ BOnly
    /\ bPc = "check"
    /\ bObs' = bAmount
    /\ bPc' = IF bAmount > BackpressureLimit THEN "sleep" ELSE "send"
    /\ UNCHANGED <<bClosed, bWsOpen, bAmount, bDelay, bReads, bSlept>>

\* the timer of delay ms fires; the next delay is computed
BSleepEnd ==
    /\ BOnly
    /\ bPc = "sleep"
    /\ bSlept' = IF Len(bSlept) < 9 THEN Append(bSlept, bDelay) ELSE bSlept
    /\ bDelay' = NextDelay(bDelay)
    /\ bPc' = "check"
    /\ UNCHANGED <<bClosed, bWsOpen, bAmount, bObs, bReads>>

\* this.ws.send(value): on a WebSocket that is not open it throws, and the
\* pump ends through catch and finally; else the chunk is buffered
BSend(size) ==
    /\ BOnly
    /\ bPc = "send"
    /\ IF bWsOpen
       THEN /\ bAmount' = bAmount + size
            /\ bPc' = "read"
            /\ UNCHANGED <<bClosed, bWsOpen>>
       ELSE /\ bPc' = "done"
            /\ bClosed' = TRUE
            /\ UNCHANGED <<bAmount, bWsOpen>>
    /\ UNCHANGED <<bDelay, bObs, bReads, bSlept>>

\* the peer reads: the buffered amount falls to the mark or to nothing
\* (it may do so after the close as well, and it may never do so)
BDrain(to) ==
    /\ BOnly
    /\ to < bAmount
    /\ bAmount' = to
    /\ UNCHANGED <<bPc, bClosed, bWsOpen, bDelay, bObs, bReads, bSlept>>

\* _dispose from outside the pump: closed latch, _closeRemote (the reader is
\* cancelled), safeCloseWebSocket
BDispose ==
    /\ BOnly
    /\ ~bClosed
    /\ bPc # "done"
    /\ bClosed' = TRUE
    /\ bWsOpen' = FALSE
    /\ UNCHANGED <<bPc, bAmount, bDelay, bObs, bReads, bSlept>>

BNext ==
    \/ BLoopExit
    \/ \E done \in BOOLEAN : BRead(done)
    \/ BCheck
    \/ BSleepEnd
    \/ \E size \in {1, BackpressureLimit} : BSend(size)
    \/ \E to \in {0, BackpressureLimit} : BDrain(to)
    \/ BDispose

\* the pump is an async function whose awaits settle: reads return, timers
\* fire. The peer owes nothing
BFair ==
    /\ WF_vars(BLoopExit)
    /\ WF_vars(\E done \in BOOLEAN : BRead(done))
    /\ WF_vars(BCheck)
    /\ WF_vars(BSleepEnd)
    /\ WF_vars(\E size \in {1, BackpressureLimit} : BSend(size))

Init ==
    /\ QInit /\ TInit /\ WInit /\ IInit /\ PInit /\ GInit /\ HInit /\ UInit /\ MInit
    /\ SInit /\ BInit

SpecQ == Init /\ [][QNext]_vars

SpecT == Init /\ [][TNext]_vars

SpecW == Init /\ [][WNext]_vars

SpecI == Init /\ [][INext]_vars

SpecP == Init /\ [][PNext]_vars

SpecG == Init /\ [][GNext]_vars /\ GFair

SpecH == Init /\ [][HNext]_vars

SpecU == Init /\ [][UNext]_vars /\ UFair

SpecM == Init /\ [][MNext]_vars

SpecS == Init /\ [][SNext]_vars

SpecB == Init /\ [][BNext]_vars /\ BFair

\* ======================================================================
\* Claims
\* ======================================================================

\* C1: through an established tunnel the upstream endpoint observes exactly
\* the bytes the client wrote, in order and exactly once, also when a write
\* times out and the write queue retries it: what the upstream has received
\* is at every moment a prefix of what the ingress wrote into the tunnel.
C1_UpstreamExactlyOnce == IsPrefix(DataOf(qUpstream), DataOf(qSent))

\* C6: when CONNECTED has been sent, the first payload has reached the
\* upstream exactly once (not at all when it is empty), also after a retry.
C6_ConnectedAfterOneFirstWrite ==
    "CONNECTED" \in {qOut[i] : i \in 1..Len(qOut)}
        => /\ Count(qUpstream, 1) = Count(qSent, 1)
           /\ Len(qUpstream) >= Count(qSent, 1)

\* C2: in the reverse direction of an established tunnel only the payloads
\* of binary frames are written to the client socket, and what is written is
\* what the upstream sent, in order and once: a prefix of the upstream's
\* bytes.
C2_ClientGetsUpstreamBytes ==
    /\ \A i \in 1..Len(iClient) : iClient[i].mt = "binary"
    /\ IsPrefix([i \in 1..Len(iClient) |-> iClient[i].p], iUpHist)

\* C3: once WebSocketSession.state is CLOSED it is CLOSED after every step,
\* whatever handler or event takes the step.
C3_ClosedIsTerminal == [][wState = "CLOSED" => wState' = "CLOSED"]_vars

\* C4: a live TcpWsSession holds at most one open upstream socket and runs
\* at most one upstream pump.
C4_OneUpstream ==
    ~tClosed =>
        /\ Cardinality({k \in Socks : tSock[k] = "open"}) <= 1
        /\ Cardinality({k \in Socks : tPump[k] > 0}) <= 1
        /\ \A k \in Socks : tPump[k] <= 1

\* C5: a TcpWsSession that is disposed, with no handler, pump, write or timer
\* of it still pending, holds no upstream socket (here for a session that
\* has made a single socket, so that one CONNECT alone is in play).
C5_DisposedHoldsNothing ==
    (/\ tClosed
     /\ tDisp = "done"
     /\ ~tTimer
     /\ \A h \in Conns : tConn[h].pc = "idle"
     /\ \A k \in Socks : tPump[k] = 0 /\ tSink[k] = <<>>
     /\ Cardinality({k \in Socks : tSock[k] # "free"}) <= 1)
        => /\ tRemote = 0
           /\ \A k \in Socks : tSock[k] # "open"

C8_ConnectingRejects ==
    [][(/\ wState = "CONNECTING"
        /\ wInbox # <<>>
        /\ wInbox' = Tail(wInbox)
        /\ wInbox[1].k \in {"CONNECT", "DATA", "BIN"})
          => /\ wOut' = Append(wOut, "ERROR")
             /\ wSink' = wSink]_vars

\* C9: once a TcpWsSession is closed no step of it writes to an upstream
\* socket, starts a dial or sends CONNECTED to the client.
C9_NothingAfterClose ==
    [][tClosed
          => /\ \A k \in Socks : Len(tSink'[k]) <= Len(tSink[k])
             /\ \A k \in Socks : tSock'[k] = "opening" => tSock[k] = "opening"
             /\ Count(tOut', "CONNECTED") = Count(tOut, "CONNECTED")]_vars

\* C10: once a WebSocketSession has been closed (closed is set), no later
\* close() runs its body again: the state, the resources and the WebSocket
\* are left as the first close() left them.
C10_SecondCloseNoOp ==
    [][wClosed => wCloses' = wCloses]_vars

\* C11: the pool counter equals the number of live sessions, those accepted
\* whose release() has not run, whatever the order of upgrades and of the
\* events that dispose a session.
C11_CounterIsLiveSessions == pCurrent = Cardinality(PLive)

\* a session has been released while a later one is live
C11_Witness ==
    /\ \E s \in 1..Len(pSess) : pSess[s] = "released"
    /\ \E s \in 1..Len(pSess) : pSess[s] = "live"
    /\ pCurrent = 1

\* C12: the live sessions never outnumber maxSessions, and an upgrade that
\* finds the pool full is answered 503, creates no session and leaves the
\* counter as it was.
C12_NeverAboveMax ==
    /\ [](Cardinality(PLive) <= MaxSessions)
    /\ [][Len(pReq') > Len(pReq) /\ PAuthorized(pToken, pReq'[Len(pReq')].offer)
            /\ pCurrent >= MaxSessions
              => /\ pReq'[Len(pReq')].resp = 503
                 /\ pSess'[Len(pSess')] = "rejected"
                 /\ pCurrent' = pCurrent]_vars

\* an upgrade has been refused with 503 while the pool is full
C12_Witness ==
    /\ \E s \in 1..Len(pReq) : pReq[s].resp = 503
    /\ pCurrent = MaxSessions

C14_AttemptList == qConn.i <= IF qConn.ip THEN 1 ELSE 1 + NumFallbacks

\* C15: when a dial attempt fails, the session goes on to the next address
\* only if the error is a Cloudflare-like one and an address is left; else
\* it dials no more, sends ERROR (the WebSocket being open) and is closed.
C15_NextAttemptOnlyOnCFError ==
    [][wErr'.n = wErr.n + 1
          => IF wErr'.cf /\ wConn.i < 1 + NumFallbacks
             THEN /\ wConn'.pc = "dial" /\ wConn'.i = wConn.i + 1
                  /\ wSock' = "opening"
                  /\ wOut' = wOut /\ wState' = wState
             ELSE /\ wConn'.pc = "idle"
                  /\ wSock' # "opening"
                  /\ wState' = "CLOSED"
                  /\ wOut' = IF wWsOpen THEN Append(wOut, "ERROR") ELSE wOut]_vars

\* a Cloudflare-like failure was followed by a failure of another kind, which
\* ended the dialling with an ERROR frame
C15_Witness ==
    /\ wErr.n = 2
    /\ ~wErr.cf
    /\ wConn.pc = "idle"
    /\ wState = "CLOSED"
    /\ wOut = <<"ERROR">>

\* C16: the step that refuses a CONNECT for a host outside ALLOWED_HOSTS
\* opens no socket and starts no attempt, sends ERROR (the WebSocket being
\* open) and leaves the session closed.
C16_DeniedHostNotDialled ==
    [][tDenied' = tDenied + 1
          => /\ \A k \in Socks : tSock'[k] = "opening" => tSock[k] = "opening"
             /\ tConn' = tConn
             /\ tOut' = IF tWsOpen THEN Append(tOut, "ERROR") ELSE tOut
             /\ tClosed']_vars

\* a CONNECT was refused as the session's first frame: nothing was dialled
C16_Witness ==
    /\ tDenied = 1
    /\ tClosed
    /\ tOut = <<"ERROR">>
    /\ \A k \in Socks : tSock[k] = "free"

\* C17: a session that the read timeout closed, the client having left the
\* WebSocket open, has sent a CLOSE frame by the time its WebSocket is closed.
C17_TimeoutSendsClose ==
    (tTimedOut /\ tDisp = "done" /\ tPeer = "open")
        => \E n \in 1..Len(tOut) : tOut[n] = "CLOSE"

\* C18: the ingress sends CONNECT once, as its first frame; every other frame
\* it sends follows the success response; the success response is given only
\* when the first frame received is CONNECTED; an ingress that gave the error
\* response has left the tunnel and sends nothing more.
C18_ConnectFirstThenReply ==
    /\ [](qReply = "success" => Len(qOut) >= 1 /\ qOut[1] = "CONNECTED")
    /\ [](qReply = "error" => qClient = "done")
    /\ [](qClient = "relay" => qReply = "success")
    /\ [][Len(qInbox') > Len(qInbox)
            => /\ qInbox' = Append(qInbox, qInbox'[Len(qInbox')])
               /\ IF qInbox'[Len(qInbox')].k = "CONNECT"
                  THEN qClient = "start" /\ qClient' = "await" /\ qReply = "none"
                  ELSE qClient = "relay" /\ qReply = "success"]_vars
    /\ [][qReply # "none" => qReply' = qReply]_vars

\* both endings happened somewhere: here the egress answered ERROR and the
\* client got the error response, nothing having been relayed
C18_Witness ==
    /\ qReply = "error"
    /\ Len(qOut) >= 1
    /\ qOut[1] = "ERROR"
    /\ qClient = "done"

\* C19: when handleTunnel leaves the relay because a copy loop has ended,
\* the egress not having closed the WebSocket, a CLOSE frame has been sent
\* to the egress by the time the WebSocket is closed.
C19_LoopEndSendsClose ==
    [][(iTunnel = "run" /\ iTunnel' = "returned" /\ iWsOpen) => iCloseSent]_vars

\* the connections whose handler is still at work
GBusy == {c \in GConns : gPc[c] \notin {"none", "done"}}

C21_NoneDirectGlobalTunnel ==
    hCall.fn = "handleTunnel"
        => /\ hCall.mode = "none" => (hCall.direct /\ ~hCall.ws)
           /\ hCall.mode = "global" => (hCall.ws /\ ~hCall.direct)

\* a connection was routed under routingMode none, the target being a name
\* that does not resolve
C21_Witness ==
    /\ hCall.fn = "handleTunnel"
    /\ hCall.mode = "none"
    /\ ~hCall.host.ip /\ hCall.host.err
    /\ hCall.direct

\* C22: with routingMode bypass_cn an IP literal goes direct iff some range
\* of the table holds it, a name iff it resolves and some range holds one of
\* its addresses; when the resolver fails the connection is tunneled.
C22_BypassCnIffMember ==
    (hCall.fn = "handleTunnel" /\ hCall.mode = "bypass_cn")
        => LET member(a) == \E i \in 1..Len(hCall.table) :
                               hCall.table[i].start <= a /\ a <= hCall.table[i].end
           IN  /\ hCall.ws = ~hCall.direct
               /\ hCall.direct =
                     IF hCall.host.ip THEN member(hCall.host.a)
                     ELSE ~hCall.host.err /\ \E a \in hCall.host.addrs : member(a)

\* C23: every reply to a DNS datagram carries that datagram's own SOCKS5
\* header and the DoH response to that datagram's own payload.
C23_ReplyIsOwn ==
    \A r \in uReplies : r.hdr = r.d /\ r.ans = r.d

\* C24: once the TCP control connection is closed the relay loop stops and
\* the UDP socket is closed, and after that no datagram is received and no
\* reply is written.
C24_TcpCloseEndsRelay ==
    /\ ((uTcp = "closed") ~> (uRelay = "done" /\ uUdp = "closed"))
    /\ [][uUdp = "closed" => (uRecvN' = uRecvN /\ uReplies' = uReplies)]_vars

\* the relay was closed down while a DNS query was in flight: its reply is
\* dropped
C24_Witness ==
    /\ uUdp = "closed"
    /\ uRelay = "done"
    /\ \E d \in 1..MaxDgrams : uJob[d].pc = "done"
    /\ uReplies = {}
    /\ uRecvN = 1

\* C25: a CONNECT:<target> frame without "|" makes every egress variant dial
\* <target> with an empty first payload.
C25_NoBarWholeTarget ==
    (hCall.fn = "CONNECT" /\ hCall.text = <<"CONNECT", ":", "h", ":", "443">>)
        => \A v \in {hCall.t, hCall.q, hCall.w} :
              ~v.err /\ v.host = <<"h">> /\ v.port = 443 /\ v.first = <<>>

\* C26: a CONNECT:h:<port>|... whose target port is 0 or 65536 is rejected
\* by every egress variant: no dial, and no other port in its place.
C26_BadPortRejected ==
    (/\ hCall.fn = "CONNECT"
     /\ Len(hCall.text) >= 6
     /\ SubSeq(hCall.text, 3, 4) = <<"h", ":">>
     /\ hCall.text[5] \in {"0", "65536"}
     /\ hCall.text[6] = "|")
        => hCall.t.err /\ hCall.q.err /\ hCall.w.err

\* C27: a forward-proxy request with Content-Length n, 0 <= n <= 10 MiB, whose
\* body bytes have arrived gets exactly n body bytes appended to the first
\* payload; with no Content-Length, or a larger one, no body is forwarded.
C27_BodyUpToLimit ==
    hCall.fn = "HTTP" =>
        /\ (hCall.hasCl /\ hCall.length >= 0 /\ hCall.length <= HBodyLimit
              /\ hCall.avail >= hCall.length) => hCall.body = hCall.length
        /\ (~hCall.hasCl \/ hCall.length > HBodyLimit) => hCall.body = 0

\* C28: the target handleSOCKS5 passes to handleTunnel is host:port for ATYP
\* IPv4 and domain and [v6]:port, one pair of brackets, for ATYP IPv6, and
\* the CONNECT frame carries that string.
C28_Socks5Target ==
    hCall.fn = "SOCKS5" =>
        /\ hCall.target =
              (CASE hCall.atyp = 1 -> <<"ip4", ":", hCall.port>>
                 [] hCall.atyp = 3 -> <<"name", ":", hCall.port>>
                 [] hCall.atyp = 4 -> <<"[", "ip6", "]", ":", hCall.port>>)
        /\ hCall.frame = <<"CONNECT", ":">> \o hCall.target \o <<"|">> \o hCall.first

\* C29: in one tunneled connection at most one of the keepalive goroutine,
\* the CONNECT send and the client -> server copy loop is inside
\* wsConn.WriteMessage at any time.
C29_WritesExclusive ==
    Cardinality({w \in {"ping", "main", "copy"} :
                    \/ w = "ping" /\ mPing = "write"
                    \/ w = "main" /\ mMain = "connect"
                    \/ w = "copy" /\ mCopy \in {"data", "close"}}) <= 1

\* a ping is being written while the copy loop has already written data and
\* is at its next read
C29_Witness ==
    mPing = "write" /\ mCopy = "read" /\ mMain = "relay" /\ mLog = <<"CONNECT", "data">>

\* C30: a payload of the write queue is given to the upstream writer at most
\* 1 + WRITE_RETRY_COUNT times; once that many attempts have failed there is
\* no further attempt: the queue is rejected and emptied, the session is
\* closed, and a client whose WebSocket is open is sent ERROR.
C30_WriteAttemptsBounded ==
    /\ [](\A i \in 1..Len(qQueue) : qQueue[i].attempt <= 1 + WRITE_RETRY_COUNT)
    /\ [][(/\ qQueue # <<>>
            /\ qQueue[1].st = "failed"
            /\ qQueue[1].attempt = 1 + WRITE_RETRY_COUNT)
           => \/ qRejected' /\ ~qRejected
              \/ qQueue' # <<>> /\ qQueue'[1] = qQueue[1]]_vars
    /\ [][(qRejected' /\ ~qRejected)
           => /\ qQueue # <<>>
              /\ qQueue[1].st = "failed"
              /\ qQueue[1].attempt = 1 + WRITE_RETRY_COUNT
              /\ qQueue' = <<>>
              /\ qIsClosed'
              /\ qWsOpen => qOut' = Append(qOut, "ERROR")]_vars
    /\ [](qRejected => qQueue = <<>> /\ qIsClosed)

\* the third attempt of a payload timed out while the client was connected:
\* the queue is rejected and ERROR is the last frame sent
C30_Witness ==
    /\ qRejected
    /\ qIsClosed
    /\ qOut # <<>>
    /\ qOut[Len(qOut)] = "ERROR"
    /\ qClient = "relay"

\* C31: dialWebSocketWithECH dials at most twice for one tunnel; it goes on
\* to a second attempt only after a first dial whose error names ECH, and
\* returns after any other outcome of the first dial.
C31_DialAtMostTwice ==
    /\ Len(sDial.outs) <= 2
    /\ sDial.pc = "refresh" => sDial.outs = <<"ECH">>
    /\ sDial.pc = "attempt" => sDial.outs = IF sDial.attempt = 1 THEN <<>> ELSE <<"ECH">>
    /\ sDial.pc = "done" => \/ Len(sDial.outs) = 1 /\ sDial.attempt = 1
                            \/ Len(sDial.outs) = 2 /\ sDial.outs[1] = "ECH"

\* both attempts were made and the second failed too
C31_Witness ==
    sDial.pc = "done" /\ sDial.outs = <<"ECH", "other">>

\* C39: once a Start has succeeded the cached ECH ConfigList is never empty,
\* whatever refreshes fail or succeed, and no dial of dialWebSocketWithECH
\* takes the plain-TLS branch.
C39_EchNeverEmpty ==
    /\ sStarted => sEchLen > 0
    /\ ~sDial.plain

\* after a successful Start a dial has made both attempts, with a refresh
\* between them, and the list is still there
C39_Witness ==
    sStarted /\ sDial.pc = "done" /\ Len(sDial.outs) = 2 /\ sEchLen > 0

\* C40: a Stop that finds the server running completes and leaves it not
\* running, and stopChan is closed at most once: no Stop closes a channel
\* that is already closed.
C40_StopClosesOnce ==
    ~sPanic

C38_PumpEndsAfterDispose ==
    bClosed ~> bPc = "done"

\* C33: an ERROR frame given to a connected session does not close it: the
\* closed latch, the WebSocket, the upstream socket, the read-timeout
\* watchdog and the pool slot stay as they are, and nothing is written to
\* the upstream.
C33_ErrorIsAdvisory ==
    [][(TTakes("ERROR") /\ tRemote # 0 /\ tInbox' = Tail(tInbox))
         => UNCHANGED <<tClosed, tDisp, tListening, tWsOpen, tRemote, tSock, tTimer,
                        poolCurrent, tReleases, tSink, tUp, tOut>>]_vars

\* a connected session has taken an ERROR frame and is still open
C33_Witness ==
    tErrTaken /\ ~tClosed /\ tRemote # 0 /\ tInbox = <<>> /\ tWsOpen

C35_LookupIffMember ==
    hCall.fn = "isChinaIP" =>
        hCall.res =
            IF hCall.v6
            THEN \E i \in 1..Len(hCall.table) :
                    /\ compareIPv6(hCall.table[i].start, hCall.a) <= 0
                    /\ compareIPv6(hCall.a, hCall.table[i].end) <= 0
            ELSE \E i \in 1..Len(hCall.table) :
                    hCall.table[i].start <= hCall.a /\ hCall.a <= hCall.table[i].end

\* C36: after a load the stored table is in ascending order of start and
\* holds exactly the valid ranges of the file, each as often as the file does.
C36_LoadSortsAndKeeps ==
    hCall.fn = "load" =>
        LET t == hCall.table
            f == hCall.file
            ok(r) == IF hCall.v6 THEN ValidV6(r) ELSE ValidV4(r)
            le(x, y) == IF hCall.v6 THEN compareIPv6(x, y) <= 0 ELSE x <= y
            times(q, r) == Cardinality({i \in 1..Len(q) : q[i] = r})
        IN  /\ \A i \in 1..Len(t) - 1 : le(t[i].start, t[i + 1].start)
            /\ \A i \in 1..Len(t) : ok(t[i]) /\ times(t, t[i]) = times(f, t[i])
            /\ \A i \in 1..Len(f) : ok(f[i]) => times(t, f[i]) = times(f, f[i])

\* three valid ranges in descending order of start, one of them twice
C36_Witness ==
    /\ hCall.fn = "load"
    /\ ~hCall.v6
    /\ hCall.file = <<[start |-> 3, end |-> 3], [start |-> 2, end |-> 3],
                      [start |-> 2, end |-> 3]>>
    /\ hCall.table = <<[start |-> 2, end |-> 3], [start |-> 2, end |-> 3],
                       [start |-> 3, end |-> 3]>>

\* C37: once a queued upstream write has failed for good, no payload queued
\* behind it or after it is ever written to the upstream: from then on the
\* upstream receives nothing more, nothing is left queued or in flight, and
\* what it has received came in queue order.
C37_NothingAfterFailedWrite ==
    /\ [](qRejected => qQueue = <<>> /\ qSink = <<>> /\ qIsClosed /\ ~qWriter)
    /\ [](\A i \in 1..Len(qDropped) : \A j \in 1..Len(qUpstream) :
            qUpstream[j] # qDropped[i])
    /\ [](\A j \in 1..Len(qUpstream) - 1 : qUpstream[j] <= qUpstream[j + 1])
    /\ [][qRejected => qUpstream' = qUpstream]_vars

\* a payload reached the upstream, a write failed for good with another
\* payload queued behind it, and every frame of the client is handled
C37_Witness ==
    /\ qRejected
    /\ qDropped # <<>>
    /\ qUpstream # <<>>
    /\ qInbox = <<>>

====
